---- MODULE Spec2Model ----
(***************************************************************************)
(* A model of JD2Q (job description to interview questions): the schema    *)
(* validator and flattening of app/services/ai_service.py, the credential  *)
(* vault and key masking of app/services/security_service.py, and the      *)
(* generate / regenerate handlers of app/routes/generation.py working on   *)
(* the store operations of app/services/supabase_service.py.               *)
(*                                                                         *)
(* Python strings are sequences of one-character strings, dicts are        *)
(* functions whose DOMAIN is the set of keys present, and a JSON value     *)
(* whose type the code tests with isinstance carries a tag.                *)
(*                                                                         *)
(* There is one specification per part of the program:                     *)
(*   SpecValidate  AIService._validate_question_response                   *)
(*   SpecMask      SecurityService.mask_api_key                            *)
(*   SpecVault     SecurityService.encrypt_api_key / decrypt_api_key       *)
(*   Spec          the generate and regenerate handlers and the store      *)
(*   SpecOrch      AIService.generate_questions / generate_answer calls    *)
(*                 running one after the other or concurrently, with the   *)
(*                 prompt cache and the client configuration they share    *)
(*   SpecFlatten   flatten_questions                                       *)
(***************************************************************************)
EXTENDS Integers, Sequences, FiniteSets, TLC

VARIABLES
    \* --- _validate_question_response under test (SpecValidate)
    v_response,      \* the parsed response handed to the validator
    v_min,           \* min_questions
    v_logger,        \* what current_app.logger.warning does in this call
    v_out,           \* the outcome of the call, NotCalled before it
    \* --- mask_api_key under test (SpecMask)
    m_key,           \* api_key
    m_visible,       \* visible_chars
    m_out,           \* the returned string, NotCalled before the call
    \* --- the credential vault under test (SpecVault)
    c_secret,        \* current_app.config['FERNET_SECRET_KEY']
    c_plain,         \* the plaintext last given to encrypt_api_key
    c_token,         \* the string that will be given to decrypt_api_key
    c_genuine,       \* c_token is the unmodified output of encrypt_api_key(c_plain)
    c_out,           \* the outcome of decrypt_api_key(c_token), NotCalled before
    \* --- the handlers and the store (Spec)
    config,               \* current_app.config
    api_keys,             \* table api_keys: id -> record
    generation_requests,  \* table generation_requests: sequence, id = index
    questions,            \* table questions: sequence of records
    activity_logs,        \* table activity_logs: sequence of records
    h,                    \* the handler invocation in progress
    \* --- the orchestrator calls (SpecOrch)
    _prompts_cache,       \* AIService._prompts_cache: name -> template
    genai_config,         \* what genai.configure last set, process-wide
    calls,                \* thread -> its generate_questions / _answer call
    loads,                \* name -> how often the file was read, the cache written
    sequential,           \* the calls run one after the other
    \* --- flatten_questions under test (SpecFlatten)
    f_result,             \* the structured result handed to flatten_questions
    f_out,                \* the returned list, NotCalled before the call
    \* --- the requests served concurrently (SpecRequests)
    favorites,            \* table favorites: set of records
    reqs,                 \* thread -> the request it is serving
    \* --- OTPService under test (SpecOtp)
    _otp_store,           \* OTPService._otp_store: email -> record
    o_now,                \* datetime.utcnow(), in minutes
    o_out                 \* the outcome of the last call, NotCalled before

validateVars == <<v_response, v_min, v_logger, v_out>>
maskVars     == <<m_key, m_visible, m_out>>
vaultVars    == <<c_secret, c_plain, c_token, c_genuine, c_out>>
handlerVars  == <<config, api_keys, generation_requests, questions,
                  activity_logs, h>>
orchVars     == <<_prompts_cache, genai_config, calls, loads, sequential>>
flattenVars  == <<f_result, f_out>>
requestVars  == <<favorites, reqs>>
otpVars      == <<_otp_store, o_now, o_out>>
vars == <<validateVars, maskVars, vaultVars, handlerVars, orchVars,
          flattenVars, requestVars, otpVars>>

\* The value of an outcome variable before the operation has run.
NotCalled == [called |-> FALSE]

\* The variables of the parts a specification does not exercise.
IdleValidate == /\ v_response = <<>> /\ v_min = 0 /\ v_logger = "ok"
                /\ v_out = NotCalled
IdleMask     == /\ m_key = <<>> /\ m_visible = 0 /\ m_out = NotCalled
IdleVault    == /\ c_secret = "" /\ c_plain = <<>> /\ c_token = <<>>
                /\ c_genuine = FALSE /\ c_out = NotCalled
IdleHandler  == /\ config = <<>> /\ api_keys = <<>>
                /\ generation_requests = <<>> /\ questions = <<>>
                /\ activity_logs = <<>> /\ h = <<>>
IdleOrch     == /\ _prompts_cache = <<>> /\ genai_config = <<>>
                /\ calls = <<>> /\ loads = <<>> /\ sequential = TRUE
IdleFlatten  == /\ f_result = <<>> /\ f_out = NotCalled
IdleRequests == /\ favorites = {} /\ reqs = <<>>
IdleOtp      == /\ _otp_store = <<>> /\ o_now = 0 /\ o_out = NotCalled

----------------------------------------------------------------------------
(* Bounds of the model.                                                    *)

MaxSections  == 2   \* sections in a model response
MaxQuestions == 2   \* questions in a section

----------------------------------------------------------------------------
(* Generic helpers.                                                        *)

Min(a, b) == IF a <= b THEN a ELSE b

\* All sequences over S of length at most n.
SeqsUpTo(S, n) == UNION {[1..k -> S] : k \in 0..n}

RECURSIVE SumSeq(_)
SumSeq(s) == IF s = <<>> THEN 0 ELSE Head(s) + SumSeq(Tail(s))

\* dict.get(key, default)
Get(d, key, default) == IF key \in DOMAIN d THEN d[key] ELSE default

----------------------------------------------------------------------------
(* JSON values of a model response.                                        *)

\* A value for which isinstance(value, list) holds, and one for which it
\* does not.
JList(s)  == [t |-> "list", v |-> s]
JNotList  == [t |-> "other", v |-> <<>>]
IsList(j) == j.t = "list"

required_fields   == <<"role_level", "extracted_skills", "sections">>
required_q_fields == <<"id", "type", "difficulty", "text", "expected_signals">>

Range(s) == {s[i] : i \in DOMAIN s}

\* A question dict holding the keys in `keys`.
Question(id, keys) ==
    [k \in keys |->
        CASE k = "id"               -> id
          [] k = "type"             -> "Conceptual"
          [] k = "difficulty"       -> "Senior"
          [] k = "text"             -> "Explain"
          [] k = "expected_signals" -> "signals"]

\* A section dict; qs is a JSON value or absent (NoKey).
NoKey == [t |-> "absent", v |-> <<>>]
Section(title, qs) ==
    [k \in {"title", "skill"} \cup (IF qs = NoKey THEN {} ELSE {"questions"}) |->
        CASE k = "title"     -> title
          [] k = "skill"     -> IF title = "T1" THEN "Python" ELSE "SQL"
          [] k = "questions" -> qs]

\* A response dict holding the keys in `keys`; secs is a JSON value.
Response(keys, secs) ==
    [k \in keys |->
        CASE k = "role_level"       -> "Senior"
          [] k = "extracted_skills" -> "Python, SQL"
          [] k = "sections"         -> secs]

AllQFields == Range(required_q_fields)

QuestionPool ==
    { Question("q1", AllQFields),
      Question("q2", AllQFields \ {"text", "expected_signals"}) }

SectionPool ==
    { Section("T1", JList(qs)) : qs \in SeqsUpTo(QuestionPool, MaxQuestions) }
    \cup { Section("T2", JList(<<>>)), Section("T2", JNotList),
           Section("T2", NoKey) }

SectionsPool ==
    { JList(s) : s \in SeqsUpTo(SectionPool, MaxSections) } \cup { JNotList }

Responses ==
    { Response(keys, secs) :
        keys \in SUBSET Range(required_fields), secs \in SectionsPool }

----------------------------------------------------------------------------
(* AIService._validate_question_response                                   *)

Returned == [called |-> TRUE, raised |-> FALSE, exc |-> "", msg |-> "",
             arg |-> "", warned |-> FALSE]
Raise(exc, msg, arg) ==
    [called |-> TRUE, raised |-> TRUE, exc |-> exc, msg |-> msg, arg |-> arg,
     warned |-> FALSE]

MsgMissingField   == "Missing required field: "
MsgNoSection      == "Response must contain at least one section"
MsgSectionNoQs    == "Section missing questions"
MsgQsNotList      == "Questions must be a list in section"
MsgQuestionField  == "Question missing required field: "
MsgNoQuestions    ==
    "AI failed to generate any questions. Please check the job description and try again."

\* The first element of the sequence `fields` that is no key of d, "" if none:
\* the for-loop over the required fields raises at the first one missing.
FirstMissing(fields, d) ==
    LET miss == {i \in DOMAIN fields : fields[i] \notin DOMAIN d}
    IN  IF miss = {} THEN ""
        ELSE fields[CHOOSE i \in miss : \A j \in miss : i <= j]

\* What the body of the loop over sections raises for one section
\* (Returned when it raises nothing).
SectionCheck(section) ==
    IF "questions" \notin DOMAIN section
    THEN Raise("ValueError", MsgSectionNoQs, Get(section, "title", "Unknown"))
    ELSE IF ~IsList(section["questions"])
    THEN Raise("ValueError", MsgQsNotList, Get(section, "title", "Unknown"))
    ELSE LET qs  == section["questions"].v
             bad == {i \in DOMAIN qs : FirstMissing(required_q_fields, qs[i]) # ""}
         IN  IF bad = {} THEN Returned
             ELSE Raise("ValueError", MsgQuestionField,
                        FirstMissing(required_q_fields,
                                     qs[CHOOSE i \in bad : \A j \in bad : i <= j]))

\* min_questions enforced as a hard minimum.
SoftMinimumStrict(total_questions, min_questions, logger) ==
    IF total_questions < min_questions
    THEN Raise("ValueError", "Too few questions", "")
    ELSE Returned

\* The soft minimum: below min_questions a warning is logged, inside
\* try / except Exception: pass, so nothing the logger does escapes.
SoftMinimum(total_questions, min_questions, logger) ==
    IF total_questions < min_questions
    THEN [Returned EXCEPT !.warned = (logger = "ok")]
    ELSE Returned

\* The check of the three top-level fields, in the order of required_fields.
RequiredFieldCheckLast(response) ==
    LET miss == {i \in DOMAIN required_fields :
                    required_fields[i] \notin DOMAIN response}
    IN  IF miss = {} THEN ""
        ELSE required_fields[CHOOSE i \in miss : \A j \in miss : i >= j]

RequiredFieldCheck(response) == FirstMissing(required_fields, response)

\* The hard minimum: no question at all.
NoQuestionCheckOff(total_questions) == Returned

NoQuestionCheck(total_questions) ==
    IF total_questions < 1
    THEN Raise("ValueError", MsgNoQuestions, "")
    ELSE Returned

\* The check of the section list.
SectionListCheckLate(response) == Returned

SectionListCheck(response) ==
    IF ~IsList(response["sections"]) \/ Len(response["sections"].v) = 0
    THEN Raise("ValueError", MsgNoSection, "")
    ELSE Returned

_validate_question_response(response, min_questions, logger) ==
    IF RequiredFieldCheck(response) # ""
    THEN Raise("ValueError", MsgMissingField, RequiredFieldCheck(response))
    ELSE IF SectionListCheck(response).raised
    THEN SectionListCheck(response)
    ELSE LET secs == IF IsList(response["sections"])
                     THEN response["sections"].v ELSE <<>>
             bad  == {i \in DOMAIN secs : SectionCheck(secs[i]).raised}
             total_questions ==
                 SumSeq([i \in DOMAIN secs |-> Len(secs[i]["questions"].v)])
         IN  IF bad # {}
             THEN SectionCheck(secs[CHOOSE i \in bad : \A j \in bad : i <= j])
             ELSE IF NoQuestionCheck(total_questions).raised
             THEN NoQuestionCheck(total_questions)
             ELSE SoftMinimum(total_questions, min_questions, logger)

\* min_questions values tried, and the three behaviours of the warning logger:
\* it logs, current_app is unavailable (no application context), or the
\* logger's warning() raises.
MinQuestionsValues == {0, 1, 2, 15}
LoggerStates == {"ok", "no_app_context", "raises"}

InitValidate ==
    /\ v_response \in Responses
    /\ v_min \in MinQuestionsValues
    /\ v_logger \in LoggerStates
    /\ v_out = NotCalled
    /\ IdleMask /\ IdleVault /\ IdleHandler /\ IdleOrch /\ IdleFlatten
    /\ IdleRequests /\ IdleOtp

Validate ==
    /\ ~v_out.called
    /\ v_out' = _validate_question_response(v_response, v_min, v_logger)
    /\ UNCHANGED <<v_response, v_min, v_logger, maskVars, vaultVars, handlerVars,
                   orchVars, flattenVars,
                   requestVars, otpVars>>

NextValidate == Validate

SpecValidate == InitValidate /\ [][NextValidate]_vars

\* --- Properties of the validator.

\* The number of questions of a response whose sections all hold a list.
TotalQuestions(response) ==
    LET secs == response["sections"].v
    IN  SumSeq([i \in DOMAIN secs |-> Len(secs[i]["questions"].v)])

HasTopLevelFields(response) ==
    {"role_level", "extracted_skills", "sections"} \subseteq DOMAIN response

\* Every section has a questions list.
SectionsHaveLists(response) ==
    /\ IsList(response["sections"])
    /\ \A i \in DOMAIN response["sections"].v :
          LET sec == response["sections"].v[i]
          IN  "questions" \in DOMAIN sec /\ IsList(sec["questions"])

WellFormed(response) ==
    /\ HasTopLevelFields(response)
    /\ SectionsHaveLists(response)
    /\ \A i \in DOMAIN response["sections"].v :
          \A j \in DOMAIN response["sections"].v[i]["questions"].v :
             {"id", "type", "difficulty", "text", "expected_signals"}
                 \subseteq DOMAIN response["sections"].v[i]["questions"].v[j]

\* C4: a well-formed response with at least one question is accepted for
\* every min_questions, also above the total, and whatever the warning
\* logger does (logs, is unavailable, raises).
C4_WellFormedAccepted ==
    (v_out.called /\ WellFormed(v_response) /\ TotalQuestions(v_response) >= 1)
        => ~v_out.raised

\* A well-formed response below min_questions was validated while the logger
\* was failing.
C4_Witness ==
    /\ v_out.called /\ WellFormed(v_response)
    /\ TotalQuestions(v_response) >= 1
    /\ TotalQuestions(v_response) < v_min
    /\ v_logger = "raises"

ZeroQuestions(response) ==
    /\ HasTopLevelFields(response)
    /\ SectionsHaveLists(response)
    /\ TotalQuestions(response) = 0

\* C5 as stated: every response with the three top-level fields and no
\* question at all (an empty section list, or only sections with an empty
\* questions list) is rejected with the "no questions generated" error.
C5_ZeroQuestionsOneError ==
    (v_out.called /\ ZeroQuestions(v_response))
        => (v_out.raised /\ v_out.msg = MsgNoQuestions)

\* C5 as amended: such a response is always rejected; with at least one
\* section (all with an empty questions list) the error is the "no
\* questions generated" one, with an empty section list it is the "at least
\* one section" one.
C5_ZeroQuestionsRejected ==
    (v_out.called /\ ZeroQuestions(v_response))
        => /\ v_out.raised
           /\ v_out.exc = "ValueError"
           /\ v_out.msg = IF Len(v_response["sections"].v) = 0
                          THEN MsgNoSection ELSE MsgNoQuestions

\* Both shapes of a zero-question response have been validated: this one is
\* the response with sections that all have an empty questions list.
C5_Witness ==
    /\ v_out.called /\ ZeroQuestions(v_response)
    /\ Len(v_response["sections"].v) = MaxSections

\* C6: a response missing any of role_level, extracted_skills, sections is
\* rejected with the missing-field error naming the first missing field in
\* that order, whatever else the response holds.
C6_FirstMissingFieldNamed ==
    (v_out.called /\ ~HasTopLevelFields(v_response))
        => /\ v_out.raised
           /\ v_out.exc = "ValueError"
           /\ v_out.msg = MsgMissingField
           /\ v_out.arg = IF "role_level" \notin DOMAIN v_response
                            THEN "role_level"
                          ELSE IF "extracted_skills" \notin DOMAIN v_response
                            THEN "extracted_skills"
                          ELSE "sections"

\* A response holding role_level only (both other fields missing) was
\* validated.
C6_Witness ==
    /\ v_out.called
    /\ DOMAIN v_response = {"role_level"}

----------------------------------------------------------------------------
(* SecurityService.mask_api_key                                            *)

MaxShortKey == 3    \* every key up to this length is tried
MaxKeyLen   == 25   \* patterned keys up to this length are tried
MaxVisible  == 4    \* visible_chars up to this value (the default is 4)
MaskCap     == 20   \* the cap on the masked prefix

KeyChars == <<"a", "b", "*">>

Stars(n) == [i \in 1..n |-> "*"]

\* s[start:] with Python's slice semantics (a negative start counts from the
\* end, and -0 is 0).
SliceFrom(s, start) ==
    LET from == IF start < 0
                THEN (IF Len(s) + start < 0 THEN 0 ELSE Len(s) + start)
                ELSE Min(start, Len(s))
    IN  SubSeq(s, from + 1, Len(s))

\* s[:stop] and s[-n:] for n > 0 are used by the key fingerprint.
SliceTo(s, stop) == SubSeq(s, 1, Min(stop, Len(s)))

\* The masked prefix without the cap of 20.
MaskedPrefixUncapped(mask_length) == Stars(mask_length)

MaskedPrefix(mask_length) == Stars(Min(mask_length, MaskCap))

mask_api_key(api_key, visible_chars) ==
    IF Len(api_key) <= visible_chars
    THEN Stars(Len(api_key))
    ELSE MaskedPrefix(Len(api_key) - visible_chars)
             \o SliceFrom(api_key, 0 - visible_chars)

\* The key of length n whose characters cycle through KeyChars from `off`.
PatternKey(n, off) == [i \in 1..n |-> KeyChars[((i + off) % Len(KeyChars)) + 1]]

MaskKeys ==
    SeqsUpTo(Range(KeyChars), MaxShortKey)
    \cup {PatternKey(n, off) : n \in 0..MaxKeyLen, off \in 0..(Len(KeyChars) - 1)}

VisibleValues == (0 - 1)..MaxVisible

InitMask ==
    /\ m_key \in MaskKeys
    /\ m_visible \in VisibleValues
    /\ m_out = NotCalled
    /\ IdleValidate /\ IdleVault /\ IdleHandler /\ IdleOrch /\ IdleFlatten
    /\ IdleRequests /\ IdleOtp

Mask ==
    /\ ~m_out.called
    /\ m_out' = [called |-> TRUE, value |-> mask_api_key(m_key, m_visible)]
    /\ UNCHANGED <<m_key, m_visible, validateVars, vaultVars, handlerVars,
                   orchVars, flattenVars,
                   requestVars, otpVars>>

NextMask == Mask

SpecMask == InitMask /\ [][NextMask]_vars

\* --- Properties of the mask.

\* C9 as stated: for 0 <= visible_chars < len(key) the output ends with the
\* last visible_chars characters of the key and every character before them
\* is the mask character (so visible_chars = 0 shows no key character).
C9_OnlySuffixRevealed ==
    (m_out.called /\ m_visible >= 0 /\ Len(m_key) > m_visible)
        => LET out == m_out.value
           IN  /\ Len(out) >= m_visible
               /\ SubSeq(out, Len(out) - m_visible + 1, Len(out))
                     = SubSeq(m_key, Len(m_key) - m_visible + 1, Len(m_key))
               /\ \A i \in 1..(Len(out) - m_visible) : out[i] = "*"

\* s is a suffix of t.
IsSuffix(s, t) ==
    Len(s) <= Len(t) /\ s = SubSeq(t, Len(t) - Len(s) + 1, Len(t))

\* C10: a key no longer than visible_chars gives len(key) mask characters;
\* a longer key gives exactly min(len(key) - visible_chars, 20) mask
\* characters followed by characters of the key, so at most 20 of them.
C10_MaskedPrefixCapped ==
    m_out.called
        => LET out == m_out.value
               k   == Min(Len(m_key) - m_visible, 20)
           IN  IF Len(m_key) <= m_visible
               THEN out = Stars(Len(m_key))
               ELSE /\ k <= 20
                    /\ Len(out) >= k
                    /\ SubSeq(out, 1, k) = Stars(k)
                    /\ IsSuffix(SubSeq(out, k + 1, Len(out)), m_key)
                    /\ (m_visible > 0 => Len(out) = k + m_visible)

\* A key more than 20 characters longer than visible_chars was masked.
C10_Witness ==
    /\ m_out.called
    /\ m_visible = 4
    /\ Len(m_key) - m_visible > 20

----------------------------------------------------------------------------
(* SecurityService.get_fernet / encrypt_api_key / decrypt_api_key          *)
(*                                                                         *)
(* A Fernet token is the base64 text of                                    *)
(*     version || timestamp || IV || AES-CBC ciphertext || HMAC            *)
(* The model keeps the token as a sequence of symbols, one per part, and   *)
(* treats the cipher and the HMAC symbolically: a ciphertext block names   *)
(* the key, IV, position and padded plaintext block it was made from, and  *)
(* an HMAC names the key and the exact bytes it signs. A string that is    *)
(* plain text is a sequence of "chr" symbols.                              *)

MaxPlainLen == 2    \* length of the plaintext keys encrypted
BlockSize   == 16   \* AES block size used by Fernet's padding

NoSecret   == ""                \* FERNET_SECRET_KEY absent or empty
Secrets    == {"S1", "S2"}
IVs        == {1, 2}            \* os.urandom(16) of one encrypt call
Timestamps == {1}               \* int(time.time()) of one encrypt call
PlainChars == {"a", "e'"}       \* "e'" stands for a two-byte character

Sym(t, v) == [t |-> t, v |-> v]

KeyId(secret) == IF secret = "S1" THEN 1 ELSE IF secret = "S2" THEN 2 ELSE 0

\* str.encode(): UTF-8.
EncodeChar(c) ==
    CASE c = "a"  -> <<97>>
      [] c = "b"  -> <<98>>
      [] c = "."  -> <<46>>
      [] c = " "  -> <<32>>
      [] c = "e'" -> <<195, 169>>

RECURSIVE StrEncode(_)
StrEncode(str) ==
    IF str = <<>> THEN <<>> ELSE EncodeChar(Head(str)) \o StrEncode(Tail(str))

\* An encoder that drops what is not ASCII.
RECURSIVE StrEncodeAsciiOnly(_)
StrEncodeAsciiOnly(str) ==
    IF str = <<>> THEN <<>>
    ELSE (IF Len(EncodeChar(Head(str))) = 1 THEN EncodeChar(Head(str)) ELSE <<>>)
            \o StrEncodeAsciiOnly(Tail(str))

\* bytes.decode(): UTF-8; BadBytes when the bytes are no UTF-8 text.
BadBytes == <<"UnicodeDecodeError">>
DecodeByte(b) ==
    CASE b = 97 -> "a" [] b = 98 -> "b" [] b = 46 -> "." [] OTHER -> " "
RECURSIVE BytesDecode(_)
BytesDecode(bytes) ==
    IF bytes = <<>> THEN <<>>
    ELSE IF Head(bytes) < 128
    THEN LET rest == BytesDecode(Tail(bytes))
         IN  IF rest = BadBytes THEN BadBytes
             ELSE <<DecodeByte(Head(bytes))>> \o rest
    ELSE IF Len(bytes) >= 2 /\ Head(bytes) = 195 /\ bytes[2] = 169
    THEN LET rest == BytesDecode(SubSeq(bytes, 3, Len(bytes)))
         IN  IF rest = BadBytes THEN BadBytes ELSE <<"e'">> \o rest
    ELSE BadBytes

\* PKCS7: pad to a multiple of the block size with n bytes of value n
\* (a whole block of padding when the data already is a multiple).
Pad(bytes) ==
    LET n == BlockSize - (Len(bytes) % BlockSize)
    IN  bytes \o [i \in 1..n |-> n]

BadPadding == <<0 - 1>>
Unpad(bytes) ==
    IF bytes = <<>> \/ Len(bytes) % BlockSize # 0 THEN BadPadding
    ELSE LET n == bytes[Len(bytes)]
         IN  IF /\ n >= 1 /\ n <= BlockSize
                /\ \A i \in (Len(bytes) - n + 1)..Len(bytes) : bytes[i] = n
             THEN SubSeq(bytes, 1, Len(bytes) - n)
             ELSE BadPadding

\* The ciphertext blocks of `padded` under (key, iv).
CipherBlocks(key, iv, padded) ==
    [b \in 1..(Len(padded) \div BlockSize) |->
        Sym("ct", <<KeyId(key), iv, b>>
                    \o SubSeq(padded, (b - 1) * BlockSize + 1, b * BlockSize))]

\* The bytes a sequence of symbols stands for, as the HMAC sees them.
RECURSIVE Flat(_)
FlatSym(sym) ==
    <<CASE sym.t = "chr" -> 0 [] sym.t = "ver" -> 1 [] sym.t = "ts" -> 2
        [] sym.t = "iv" -> 3 [] sym.t = "ct" -> 4 [] sym.t = "tag" -> 5,
      Len(sym.v)>> \o sym.v
Flat(syms) == IF syms = <<>> THEN <<>> ELSE FlatSym(Head(syms)) \o Flat(Tail(syms))

Hmac(key, body) == Sym("tag", <<KeyId(key)>> \o Flat(body))

\* Fernet(key).encrypt(data)
FernetEncrypt(key, data, iv, ts) ==
    LET body == <<Sym("ver", <<128>>), Sym("ts", <<ts>>), Sym("iv", <<iv>>)>>
                    \o CipherBlocks(key, iv, Pad(data))
    IN  body \o <<Hmac(key, body)>>

\* Fernet(key).decrypt(token) with no ttl: InvalidToken, or the data.
InvalidToken == <<0 - 2>>
FernetDecrypt(key, token) ==
    IF \/ Len(token) < 2                     \* too short, or empty
       \/ \E i \in DOMAIN token : token[i].t = "chr"   \* not this base64 text
       \/ token[1] # Sym("ver", <<128>>)     \* data[0] != 0x80
       \/ token[2].t # "ts"
    THEN InvalidToken
    ELSE LET body == SubSeq(token, 1, Len(token) - 1)
             tag  == token[Len(token)]
         IN  IF tag # Hmac(key, body)        \* _verify_signature
             THEN InvalidToken
             ELSE IF Len(body) < 3 \/ body[3].t # "iv"
             THEN InvalidToken
             ELSE LET iv  == body[3].v[1]
                      cts == SubSeq(body, 4, Len(body))
                      ok  == \A b \in DOMAIN cts :
                                /\ cts[b].t = "ct"
                                /\ SubSeq(cts[b].v, 1, 3) = <<KeyId(key), iv, b>>
                      RECURSIVE Plain(_)
                      Plain(c) == IF c = <<>> THEN <<>>
                                  ELSE SubSeq(Head(c).v, 4, Len(Head(c).v))
                                          \o Plain(Tail(c))
                  IN  IF ~ok \/ Unpad(Plain(cts)) = BadPadding
                      THEN InvalidToken
                      ELSE Unpad(Plain(cts))

MsgNoSecretKey   == "FERNET_SECRET_KEY not configured"
MsgDecryptFailed == "Failed to decrypt API key - invalid or corrupted data"

Outcome(op, value) ==
    [called |-> TRUE, op |-> op, raised |-> FALSE, exc |-> "", msg |-> "",
     value |-> value]
Failure(op, exc, msg) ==
    [called |-> TRUE, op |-> op, raised |-> TRUE, exc |-> exc, msg |-> msg,
     value |-> <<>>]

\* An encrypt_api_key that encodes with an ASCII-only codec.
encrypt_api_key_ascii(secret, api_key, iv, ts) ==
    IF secret = NoSecret
    THEN Failure("encrypt", "ValueError", MsgNoSecretKey)
    ELSE Outcome("encrypt", FernetEncrypt(secret, StrEncodeAsciiOnly(api_key), iv, ts))

\* iv and ts are the random IV and the clock reading of the call.
encrypt_api_key(secret, api_key, iv, ts) ==
    IF secret = NoSecret
    THEN Failure("encrypt", "ValueError", MsgNoSecretKey)
    ELSE Outcome("encrypt", FernetEncrypt(secret, StrEncode(api_key), iv, ts))

\* The characters of a string of plain text, as far as they are known.
TextOf(token) ==
    [i \in DOMAIN token |->
        IF token[i].t = "chr" /\ token[i].v = <<97>> THEN "a" ELSE "?"]

\* A decrypt_api_key that falls back to the stored string when it is no
\* token (as for keys stored before encryption was introduced).
decrypt_api_key_fallback(secret, encrypted_key) ==
    IF secret = NoSecret
    THEN Failure("decrypt", "ValueError", MsgNoSecretKey)
    ELSE LET data == FernetDecrypt(secret, encrypted_key)
         IN  IF data = InvalidToken
             THEN Outcome("decrypt", TextOf(encrypted_key))
             ELSE IF BytesDecode(data) = BadBytes
             THEN Failure("decrypt", "UnicodeDecodeError", "")
             ELSE Outcome("decrypt", BytesDecode(data))

\* A decrypt_api_key that works with a built-in key when none is configured.
decrypt_api_key_default_key(secret, encrypted_key) ==
    LET data == FernetDecrypt(IF secret = NoSecret THEN "S1" ELSE secret,
                              encrypted_key)
    IN  IF data = InvalidToken
        THEN Failure("decrypt", "ValueError", MsgDecryptFailed)
        ELSE IF BytesDecode(data) = BadBytes
        THEN Failure("decrypt", "UnicodeDecodeError", "")
        ELSE Outcome("decrypt", BytesDecode(data))

decrypt_api_key(secret, encrypted_key) ==
    IF secret = NoSecret
    THEN Failure("decrypt", "ValueError", MsgNoSecretKey)
    ELSE LET data == FernetDecrypt(secret, encrypted_key)
         IN  IF data = InvalidToken
             THEN Failure("decrypt", "ValueError", MsgDecryptFailed)
             ELSE IF BytesDecode(data) = BadBytes
             THEN Failure("decrypt", "UnicodeDecodeError", "")
             ELSE Outcome("decrypt", BytesDecode(data))

\* --- The vault under test.

PlainTexts == SeqsUpTo(PlainChars, MaxPlainLen)

\* A string of plain text, as a string of the kind decrypt_api_key is given.
Text(str) == [i \in DOMAIN str |-> Sym("chr", EncodeChar(str[i]))]

\* Every token encrypt_api_key can return under `secret`.
TokensUnder(secret) ==
    {FernetEncrypt(secret, StrEncode(x), iv, ts) :
        x \in PlainTexts, iv \in IVs, ts \in Timestamps}

\* The symbols somebody who has seen tokens of both secrets can put into a
\* string: theirs, and plain characters.
KnownSyms ==
    UNION {Range(tok) : tok \in UNION {TokensUnder(k) : k \in Secrets}}
    \cup {Sym("chr", EncodeChar(c)) : c \in PlainChars}

InitVault ==
    /\ c_secret \in Secrets \cup {NoSecret}
    /\ c_plain = <<>>
    /\ c_token \in {Text(x) : x \in PlainTexts}
    /\ c_genuine = FALSE
    /\ c_out = NotCalled
    /\ IdleValidate /\ IdleMask /\ IdleHandler /\ IdleOrch /\ IdleFlatten
    /\ IdleRequests /\ IdleOtp

\* encrypt_api_key(x) under the configured secret.
Encrypt ==
    /\ ~c_out.called /\ c_plain = <<>> /\ ~c_genuine
    /\ \E x \in PlainTexts, iv \in IVs, ts \in Timestamps :
          LET r == encrypt_api_key(c_secret, x, iv, ts)
          IN  IF r.raised
              THEN /\ c_out' = r
                   /\ UNCHANGED <<c_plain, c_token, c_genuine>>
              ELSE /\ c_token' = r.value
                   /\ c_plain' = x
                   /\ c_genuine' = TRUE
                   /\ UNCHANGED c_out
    /\ UNCHANGED <<c_secret, validateVars, maskVars, handlerVars,
                   orchVars, flattenVars,
                   requestVars, otpVars>>

\* A token that was made under another secret is presented.
PresentForeignToken ==
    /\ ~c_out.called /\ c_plain = <<>> /\ ~c_genuine
    /\ \E k \in Secrets \ {c_secret} :
          c_token' \in TokensUnder(k)
    /\ UNCHANGED <<c_secret, c_plain, c_genuine, c_out,
                   validateVars, maskVars, handlerVars,
                   orchVars, flattenVars,
                   requestVars, otpVars>>

\* The token returned by encrypt_api_key is truncated.
Truncate ==
    /\ ~c_out.called /\ c_genuine
    /\ \E n \in 0..(Len(c_token) - 1) : c_token' = SubSeq(c_token, 1, n)
    /\ c_genuine' = FALSE
    /\ UNCHANGED <<c_secret, c_plain, c_out, validateVars, maskVars, handlerVars,
                   orchVars, flattenVars,
                   requestVars, otpVars>>

\* One part of the token returned by encrypt_api_key is replaced.
Tamper ==
    /\ ~c_out.called /\ c_genuine
    /\ \E i \in DOMAIN c_token :
          \E sym \in KnownSyms \ {c_token[i]} :
             c_token' = [c_token EXCEPT ![i] = sym]
    /\ c_genuine' = FALSE
    /\ UNCHANGED <<c_secret, c_plain, c_out, validateVars, maskVars, handlerVars,
                   orchVars, flattenVars,
                   requestVars, otpVars>>

Decrypt ==
    /\ ~c_out.called
    /\ c_out' = decrypt_api_key(c_secret, c_token)
    /\ UNCHANGED <<c_secret, c_plain, c_token, c_genuine,
                   validateVars, maskVars, handlerVars,
                   orchVars, flattenVars,
                   requestVars, otpVars>>

NextVault ==
    \/ Encrypt \/ PresentForeignToken \/ Truncate \/ Tamper \/ Decrypt

SpecVault == InitVault /\ [][NextVault]_vars

\* --- Properties of the vault.

\* C7: with a configured secret, decrypting the token encrypt_api_key
\* returned for a non-empty x gives x back, and the token is not x.
C7_RoundTrip ==
    (c_out.called /\ c_out.op = "decrypt" /\ c_genuine /\ c_plain # <<>>)
        => /\ ~c_out.raised
           /\ c_out.value = c_plain
           /\ c_token # Text(c_plain)

\* A key with a two-byte character was encrypted and decrypted again.
C7_Witness ==
    /\ c_out.called /\ c_out.op = "decrypt" /\ c_genuine
    /\ c_secret = "S1"
    /\ c_plain = <<"e'", "a">>

\* C8: with a configured secret, decrypt_api_key of a string that
\* encrypt_api_key cannot have returned under that secret (the empty string,
\* plain text, a truncated or altered token, a token of another secret)
\* raises the decryption error and returns nothing.
C8_ForeignStringsRejected ==
    (/\ c_out.called /\ c_out.op = "decrypt"
     /\ c_secret # NoSecret
     /\ c_token \notin TokensUnder(c_secret))
        => /\ c_out.raised
           /\ c_out.exc = "ValueError"
           /\ c_out.msg = MsgDecryptFailed
           /\ c_out.value = <<>>

\* A token whose HMAC was replaced by that of another token of the same
\* secret was given to decrypt_api_key.
C8_Witness ==
    /\ c_out.called /\ c_out.op = "decrypt"
    /\ c_secret = "S1"
    /\ c_plain # <<>>
    /\ ~c_genuine
    /\ Len(c_token) = 5
    /\ c_token[5].t = "tag" /\ c_token[5].v[1] = 1
    /\ c_token[5] # Hmac(c_secret, SubSeq(c_token, 1, 4))

\* C11: without FERNET_SECRET_KEY (absent or empty) encrypt_api_key returns
\* no token and every call of encrypt_api_key and decrypt_api_key raises the
\* "not configured" ValueError and returns nothing, also for a string that
\* is a token of some secret.
C11_NoSecretNoOperation ==
    c_secret = NoSecret
        => /\ ~c_genuine /\ c_plain = <<>>
           /\ c_out.called
                => /\ c_out.raised
                   /\ c_out.exc = "ValueError"
                   /\ c_out.msg = MsgNoSecretKey
                   /\ c_out.value = <<>>

\* Without a secret, decrypt_api_key was given a token made under S1.
C11_Witness ==
    /\ c_secret = NoSecret
    /\ c_out.called /\ c_out.op = "decrypt"
    /\ c_token \in TokensUnder("S1")

----------------------------------------------------------------------------
(* flatten_questions, generate_questions and validate_jd_word_count        *)

None == "None"    \* Python's None, for a scalar

RECURSIVE Concat(_)
Concat(seqs) == IF seqs = <<>> THEN <<>> ELSE Head(seqs) \o Concat(Tail(seqs))

\* A flattening that tags every record with the first section.
flatten_questions_first_section(result) ==
    LET secs == Get(result, "sections", JList(<<>>)).v
    IN  Concat([i \in DOMAIN secs |->
            LET qs == Get(secs[i], "questions", JList(<<>>)).v
            IN  [j \in DOMAIN qs |->
                    [id               |-> Get(qs[j], "id", None),
                     section_title    |-> Get(secs[1], "title", None),
                     skill            |-> Get(secs[1], "skill", None),
                     type             |-> Get(qs[j], "type", None),
                     difficulty       |-> Get(qs[j], "difficulty", None),
                     text             |-> Get(qs[j], "text", None),
                     expected_signals |-> Get(qs[j], "expected_signals", "[]")]]])

flatten_questions(result) ==
    LET secs == Get(result, "sections", JList(<<>>)).v
    IN  Concat([i \in DOMAIN secs |->
            LET section == secs[i]
                qs      == Get(section, "questions", JList(<<>>)).v
            IN  [j \in DOMAIN qs |->
                    [id               |-> Get(qs[j], "id", None),
                     section_title    |-> Get(section, "title", None),
                     skill            |-> Get(section, "skill", None),
                     type             |-> Get(qs[j], "type", None),
                     difficulty       |-> Get(qs[j], "difficulty", None),
                     text             |-> Get(qs[j], "text", None),
                     expected_signals |-> Get(qs[j], "expected_signals", "[]")]]])

\* What the external model does in one call: the call raises, it returns
\* text that is no JSON, or it returns the JSON document `response`.
ModelRaises   == [kind |-> "raises", response |-> <<>>]
ModelBadText  == [kind |-> "text", response |-> <<>>]
ModelJson(r)  == [kind |-> "json", response |-> r]
NoModel       == [kind |-> "none", response |-> <<>>]

MsgEmptyKey   == "Decrypted API key is EMPTY"
MsgTemplate   == "template could not be loaded"
MsgModelError == "model call failed"
MsgBadJson    == "Failed to parse AI response as JSON"

\* AIService.generate_questions. Every failure below is raised to the
\* caller as an Exception whose message ends with the cause's message; msg
\* holds the cause's message, and invoked tells whether
\* model.generate_content was called.
GenFailed(msg, invoked) ==
    [raised |-> TRUE, msg |-> msg, value |-> <<>>, invoked |-> invoked]
GenReturned(result) ==
    [raised |-> FALSE, msg |-> "", value |-> result, invoked |-> TRUE]

generate_questions(cfg, encrypted_api_key, template_ok, model, logger) ==
    LET dec == decrypt_api_key(cfg.FERNET_SECRET_KEY, encrypted_api_key)
    IN  IF dec.raised
        THEN GenFailed(dec.msg, FALSE)
        ELSE IF dec.value = <<>>
        THEN GenFailed(MsgEmptyKey, FALSE)
        ELSE IF ~template_ok
        THEN GenFailed(MsgTemplate, FALSE)
        ELSE IF model.kind = "raises"
        THEN GenFailed(MsgModelError, TRUE)
        ELSE IF model.kind = "text"
        THEN GenFailed(MsgBadJson, TRUE)
        ELSE LET val == _validate_question_response(
                            model.response, cfg.MIN_QUESTIONS, logger)
             IN  IF val.raised
                 THEN GenFailed(val.msg, TRUE)
                 ELSE GenReturned(model.response)

\* str.strip() and str.split(), with " " the whitespace character.
RECURSIVE LStrip(_)
LStrip(str) == IF str # <<>> /\ Head(str) = " " THEN LStrip(Tail(str)) ELSE str
RECURSIVE RStrip(_)
RStrip(str) ==
    IF str # <<>> /\ str[Len(str)] = " "
    THEN RStrip(SubSeq(str, 1, Len(str) - 1)) ELSE str
Strip(str) == RStrip(LStrip(str))

RECURSIVE SplitFrom(_, _)
SplitFrom(str, word) ==
    IF str = <<>> THEN (IF word = <<>> THEN <<>> ELSE <<word>>)
    ELSE IF Head(str) = " "
    THEN (IF word = <<>> THEN <<>> ELSE <<word>>) \o SplitFrom(Tail(str), <<>>)
    ELSE SplitFrom(Tail(str), Append(word, Head(str)))
Split(str) == SplitFrom(str, <<>>)

\* A check that accepts fewer than max_words words only.
validate_jd_word_count_strict(text, max_words) ==
    IF text = <<>> \/ Strip(text) = <<>>
    THEN [is_valid |-> FALSE, word_count |-> 0]
    ELSE [is_valid |-> Len(Split(text)) < max_words,
          word_count |-> Len(Split(text))]

validate_jd_word_count(text, max_words) ==
    IF text = <<>> \/ Strip(text) = <<>>
    THEN [is_valid |-> FALSE, word_count |-> 0]
    ELSE [is_valid |-> Len(Split(text)) <= max_words,
          word_count |-> Len(Split(text))]

----------------------------------------------------------------------------
(* The store (app/services/supabase_service.py) and the generate and       *)
(* regenerate handlers (app/routes/generation.py).                         *)
(*                                                                         *)
(* A handler runs one store or model call per step. Every store call       *)
(* either succeeds or raises (the client cannot be obtained, the network   *)
(* or the database fails); a call that raises changes nothing.             *)

MaxRuns == 1    \* handler invocations in one behaviour

Users == {"u1", "u2"}

\* The configurations tried: the defaults of config.py, a small one, and
\* one without FERNET_SECRET_KEY.
Configs ==
    { [MIN_QUESTIONS |-> 15, MAX_JD_WORDS |-> 1500, FERNET_SECRET_KEY |-> "S1"],
      [MIN_QUESTIONS |-> 2,  MAX_JD_WORDS |-> 2,    FERNET_SECRET_KEY |-> "S1"],
      [MIN_QUESTIONS |-> 15, MAX_JD_WORDS |-> 1500, FERNET_SECRET_KEY |-> NoSecret] }

\* The api_keys table: k1 is a key of u1 encrypted under the secret S1, k2 a
\* key of u1 that was encrypted under another secret; u2 has no key.
StoredKey(user_id, key_name, secret) ==
    [user_id |-> user_id, key_name |-> key_name, usage_count |-> 0,
     encrypted_key |-> FernetEncrypt(secret, StrEncode(<<"a", "a">>), 1, 1)]
InitialApiKeys ==
    [k \in {"k1", "k2"} |->
        IF k = "k1" THEN StoredKey("u1", "main", "S1")
        ELSE StoredKey("u1", "old", "S2")]

DeletedName == "[DELETED] 2026-01-01 00:00"

\* SupabaseService.get_api_keys: the ids of the user's keys that are not
\* soft-deleted.
get_api_keys(user_id) ==
    {k \in DOMAIN api_keys :
        api_keys[k].user_id = user_id /\ api_keys[k].key_name # DeletedName}

\* SupabaseService.create_generation_request: the row inserted.
NewRequest(user_id, api_key_id, job_description) ==
    [user_id |-> user_id, api_key_id |-> api_key_id,
     job_description |-> job_description, status |-> "pending",
     role_level |-> None, extracted_skills |-> None, error_message |-> None]

\* An update without the filter on the id: every row is updated.
update_generation_request_all(gen_id, updates) ==
    [id \in DOMAIN generation_requests |->
        [f \in DOMAIN generation_requests[id] |->
            IF f \in DOMAIN updates THEN updates[f]
            ELSE generation_requests[id][f]]]

\* SupabaseService.update_generation_request: the table after the update.
update_generation_request(gen_id, updates) ==
    [generation_requests EXCEPT ![gen_id] =
        [f \in DOMAIN @ |-> IF f \in DOMAIN updates THEN updates[f] ELSE @[f]]]

\* SupabaseService.get_generation_request: the id of the row, 0 for None.
get_generation_request(gen_id, user_id) ==
    IF gen_id \in DOMAIN generation_requests
       /\ generation_requests[gen_id].user_id = user_id
    THEN gen_id ELSE 0

\* datetime.utcnow() read n times in a row: the clock does not go back, and
\* two readings in a row can fall in the same tick.
Ticks == {1, 2}
ClockReadings(n) ==
    {s \in [1..n -> Ticks] : \A i \in 1..(n - 1) : s[i] <= s[i + 1]}

\* Rows that carry the id of the first request, whatever the argument is.
QuestionRecordsFirstRequest(generation_id, qs, stamps) ==
    [i \in DOMAIN qs |->
        [generation_id    |-> 1,
         question_id      |-> qs[i].id,
         section_title    |-> qs[i].section_title,
         skill            |-> qs[i].skill,
         question_type    |-> qs[i].type,
         difficulty       |-> qs[i].difficulty,
         question_text    |-> qs[i].text,
         expected_signals |-> qs[i].expected_signals,
         created_at       |-> stamps[i],
         generated_answer |-> None]]

\* SupabaseService.create_questions: the rows inserted, stamps[i] being the
\* reading of utcnow() in the i-th turn of the loop.
QuestionRecords(generation_id, qs, stamps) ==
    [i \in DOMAIN qs |->
        [generation_id    |-> generation_id,
         question_id      |-> qs[i].id,
         section_title    |-> qs[i].section_title,
         skill            |-> qs[i].skill,
         question_type    |-> qs[i].type,
         difficulty       |-> qs[i].difficulty,
         question_text    |-> qs[i].text,
         expected_signals |-> qs[i].expected_signals,
         created_at       |-> stamps[i],
         generated_answer |-> None]]

\* The rows of the table questions with this generation_id, in the order
\* they were inserted (the select and eq of get_questions_for_generation).
get_questions_for_generation(generation_id) ==
    SelectSeq(questions, LAMBDA row : row.generation_id = generation_id)

\* A log_activity that lets the exception of a failed write out.
log_activity_raising(logs, record, ok) ==
    [raised |-> ~ok, logs |-> IF ok THEN Append(logs, record) ELSE logs]

\* SupabaseService.log_activity: the table after the call. With ok false
\* get_client or the insert raises inside the try, and the except clause
\* passes.
log_activity(logs, record, ok) ==
    [raised |-> FALSE, logs |-> IF ok THEN Append(logs, record) ELSE logs]

\* --- Inputs of the handlers.

JobDescriptions ==
    { <<" ">>, <<"x", " ", "y", " ">>, <<"x", " ", "y", " ", "z">> }
FormKeyIds == {"", "k1", "k2"}

GoodQuestion(id) == Question(id, AllQFields)
HandlerSections ==
    { Section("T1", JList(<<GoodQuestion("q1")>>)),
      Section("T2", JList(<<GoodQuestion("q1"), GoodQuestion("q2")>>)),
      Section("T2", JList(<<>>)) }
HandlerResponses ==
    { Response(Range(required_fields), JList(secs)) :
        secs \in SeqsUpTo(HandlerSections, MaxSections) }
    \cup { Response({"extracted_skills", "sections"},
                    JList(<<Section("T1", JList(<<GoodQuestion("q1")>>))>>)) }
ModelOutcomes ==
    {ModelRaises, ModelBadText} \cup {ModelJson(r) : r \in HandlerResponses}

\* --- The handler invocation.

HandlerIdle(runs) ==
    [pc |-> "idle", kind |-> "", user_id |-> "", job_description |-> <<>>,
     api_key_id |-> "", word_count |-> 0, orig_id |-> 0, gen_id |-> 0,
     model |-> NoModel, result |-> <<>>, questions |-> <<>>, exc |-> "",
     faults |-> {}, response |-> "", runs |-> runs]

\* The handler returns `response` to the client.
Respond(response) == [h EXCEPT !.pc = "done", !.response = response]

\* A store call of step `step` raised: control passes to the except clause.
Raised(step, msg) ==
    [h EXCEPT !.pc = "except", !.exc = msg, !.faults = @ \cup {step}]

MsgStore == "store call failed"

\* The tables hold nothing yet, or hold what an earlier generate of u1 with
\* key k1 has left: a completed request and its question rows.
EarlierResponse ==
    Response(Range(required_fields),
             JList(<<Section("T1", JList(<<GoodQuestion("q1")>>))>>))
EarlierRequest ==
    [NewRequest("u1", "k1", <<"x", " ", "y">>) EXCEPT
        !.status = "completed",
        !.role_level = EarlierResponse["role_level"],
        !.extracted_skills = EarlierResponse["extracted_skills"]]

InitHandler ==
    /\ config \in Configs
    /\ api_keys = InitialApiKeys
    /\ \/ /\ generation_requests = <<>>
          /\ questions = <<>>
       \/ /\ generation_requests = <<EarlierRequest>>
          /\ questions = QuestionRecords(1, flatten_questions(EarlierResponse),
                                         <<1>>)
    /\ activity_logs = <<>>
    /\ h = HandlerIdle(0)
    /\ IdleValidate /\ IdleMask /\ IdleVault /\ IdleOrch /\ IdleFlatten
    /\ IdleRequests /\ IdleOtp

otherVars == <<validateVars, maskVars, vaultVars, orchVars, flattenVars,
                   requestVars, otpVars>>

\* generate, lines 35-50: the form is read and checked.
GenerateStart ==
    /\ h.pc = "idle" /\ h.runs < MaxRuns
    /\ \E user \in Users, jd \in JobDescriptions, key \in FormKeyIds :
          LET job_description == Strip(jd)
              checked == validate_jd_word_count(job_description,
                                                config.MAX_JD_WORDS)
              started == [h EXCEPT !.kind = "generate", !.user_id = user,
                                   !.job_description = job_description,
                                   !.api_key_id = key,
                                   !.word_count = checked.word_count]
          IN  h' = IF job_description = <<>> \/ key = ""
                   THEN [started EXCEPT !.pc = "done",
                                        !.response = "index: missing input"]
                   ELSE IF ~checked.is_valid
                   THEN [started EXCEPT !.pc = "done",
                                        !.response = "index: too long"]
                   ELSE [started EXCEPT !.pc = "get_keys"]
    /\ UNCHANGED <<config, api_keys, generation_requests, questions,
                   activity_logs, otherVars>>

\* regenerate, lines 148-159: the original request is read, outside the try.
RegenerateStart ==
    /\ h.pc = "idle" /\ h.runs < MaxRuns
    /\ \E user \in Users, gen_id \in 1..(Len(generation_requests) + 1),
          ok \in BOOLEAN :
          LET original == get_generation_request(gen_id, user)
              started  == [h EXCEPT !.kind = "regenerate", !.user_id = user,
                                    !.orig_id = gen_id]
          IN  h' = IF ~ok
                   THEN [started EXCEPT !.pc = "done", !.response = "error 500",
                                        !.faults = {"get_generation_request"}]
                   ELSE IF original = 0
                   THEN [started EXCEPT !.pc = "done",
                                        !.response = "dashboard: not found"]
                   ELSE [started EXCEPT
                           !.pc = "get_keys",
                           !.job_description =
                               generation_requests[original].job_description,
                           !.api_key_id =
                               generation_requests[original].api_key_id]
    /\ UNCHANGED <<config, api_keys, generation_requests, questions,
                   activity_logs, otherVars>>

\* get_api_keys and the choice of the selected key.
SelectKey ==
    /\ h.pc = "get_keys"
    /\ \E ok \in BOOLEAN :
          h' = IF ~ok THEN Raised("get_api_keys", MsgStore)
               ELSE IF h.api_key_id \notin get_api_keys(h.user_id)
               THEN Respond("index: invalid key")
               ELSE [h EXCEPT !.pc = "create"]
    /\ UNCHANGED <<config, api_keys, generation_requests, questions,
                   activity_logs, otherVars>>

\* create_generation_request: the row is inserted with status pending.
CreateRequest ==
    /\ h.pc = "create"
    /\ \/ /\ generation_requests' =
                Append(generation_requests,
                       NewRequest(h.user_id, h.api_key_id, h.job_description))
          /\ h' = [h EXCEPT !.pc = "model",
                            !.gen_id = Len(generation_requests) + 1]
       \/ /\ h' = Raised("create_generation_request", MsgStore)
          /\ UNCHANGED generation_requests
    /\ UNCHANGED <<config, api_keys, questions, activity_logs, otherVars>>

\* AIService.generate_questions with the selected key.
CallModel ==
    /\ h.pc = "model"
    /\ \E template_ok \in BOOLEAN, model \in ModelOutcomes :
          LET r == generate_questions(config,
                        api_keys[h.api_key_id].encrypted_key,
                        template_ok, model, "ok")
              seen == IF r.invoked THEN model ELSE NoModel
          IN  h' = IF r.raised
                   THEN [h EXCEPT !.pc = "except", !.exc = r.msg,
                                  !.model = seen]
                   ELSE [h EXCEPT !.pc = "update", !.result = r.value,
                                  !.model = seen]
    /\ UNCHANGED <<config, api_keys, generation_requests, questions,
                   activity_logs, otherVars>>

\* update_generation_request(gen_id, completed, role_level, skills).
MarkCompleted ==
    /\ h.pc = "update"
    /\ \/ /\ generation_requests' =
                update_generation_request(h.gen_id,
                    [status |-> "completed",
                     role_level |-> Get(h.result, "role_level", None),
                     extracted_skills |-> Get(h.result, "extracted_skills", None)])
          /\ h' = [h EXCEPT !.pc = "insert"]
       \/ /\ h' = Raised("update_generation_request", MsgStore)
          /\ UNCHANGED generation_requests
    /\ UNCHANGED <<config, api_keys, questions, activity_logs, otherVars>>

\* flatten_questions and create_questions.
StoreQuestions ==
    /\ h.pc = "insert"
    /\ LET flat == flatten_questions(h.result)
       IN  \/ /\ \E stamps \in ClockReadings(Len(flat)) :
                    questions' =
                        questions \o QuestionRecords(h.gen_id, flat, stamps)
              /\ h' = [h EXCEPT !.pc = "increment", !.questions = flat]
           \/ /\ h' = [Raised("create_questions", MsgStore)
                          EXCEPT !.questions = flat]
              /\ UNCHANGED questions
    /\ UNCHANGED <<config, api_keys, generation_requests, activity_logs,
                   otherVars>>

\* increment_key_usage.
IncrementUsage ==
    /\ h.pc = "increment"
    /\ \/ /\ api_keys' = [api_keys EXCEPT ![h.api_key_id].usage_count = @ + 1]
          /\ h' = [h EXCEPT !.pc = "log"]
       \/ /\ h' = Raised("increment_key_usage", MsgStore)
          /\ UNCHANGED api_keys
    /\ UNCHANGED <<config, generation_requests, questions, activity_logs,
                   otherVars>>

\* log_activity, then the success response. h.faults notes a failed write.
LogActivity ==
    /\ h.pc = "log"
    /\ \E ok \in BOOLEAN :
          LET out == log_activity(activity_logs,
                        [user_id |-> h.user_id,
                         action |-> IF h.kind = "generate"
                                    THEN "generate_questions"
                                    ELSE "regenerate_questions",
                         entity_type |-> "generation_request",
                         entity_id |-> h.gen_id,
                         metadata |-> [question_count |-> Len(h.questions)]],
                        ok)
              noted == IF ok THEN h.faults ELSE h.faults \cup {"log_activity"}
          IN  /\ activity_logs' = out.logs
              /\ h' = IF out.raised
                       THEN Raised("log_activity", MsgStore)
                       ELSE [Respond("results: success")
                                EXCEPT !.faults = noted]
    /\ UNCHANGED <<config, api_keys, generation_requests, questions, otherVars>>

\* The except clause: the request, if one was created, is marked failed.
HandleException ==
    /\ h.pc = "except"
    /\ \/ /\ h.gen_id = 0
          /\ h' = Respond("index: failed")
          /\ UNCHANGED generation_requests
       \/ /\ h.gen_id # 0
          /\ generation_requests' =
                update_generation_request(h.gen_id,
                    [status |-> "failed", error_message |-> h.exc])
          /\ h' = Respond(IF h.kind = "generate" THEN "index: failed"
                          ELSE "results: regeneration failed")
       \/ /\ h.gen_id # 0
          /\ h' = [Respond("error 500")
                      EXCEPT !.faults = @ \cup {"mark_failed"}]
          /\ UNCHANGED generation_requests
    /\ UNCHANGED <<config, api_keys, questions, activity_logs, otherVars>>

\* The response is sent; the next request can come in.
Return ==
    /\ h.pc = "done"
    /\ h' = HandlerIdle(h.runs + 1)
    /\ UNCHANGED <<config, api_keys, generation_requests, questions,
                   activity_logs, otherVars>>

Next ==
    \/ GenerateStart \/ RegenerateStart \/ SelectKey \/ CreateRequest
    \/ CallModel \/ MarkCompleted \/ StoreQuestions \/ IncrementUsage
    \/ LogActivity \/ HandleException \/ Return

Spec == InitHandler /\ [][Next]_vars

\* --- Properties of the handlers.

Terminal == {"completed", "failed"}

\* C1 as stated: the status of a request changes only from pending to
\* completed or failed, and once it is completed or failed no step changes
\* its status, role_level or extracted_skills, whichever of the steps after
\* the model call succeed or raise.
C1_TerminalStatusFinal ==
    [][\A id \in DOMAIN generation_requests :
          LET old == generation_requests[id]
              new == generation_requests'[id]
          IN  (\/ old.status # new.status
               \/ old.role_level # new.role_level
               \/ old.extracted_skills # new.extracted_skills)
                 => (old.status = "pending" /\ new.status \in Terminal)]_vars

\* C2 as stated: when the handler has returned, the request it created is
\* completed or failed, whichever step failed.
C2_NoRequestLeftPending ==
    (h.pc = "done" /\ h.gen_id # 0)
        => generation_requests[h.gen_id].status \in Terminal

\* The number of questions in the sections before section i.
RECURSIVE QuestionsBefore(_, _)
QuestionsBefore(secs, i) ==
    IF i <= 1 THEN 0
    ELSE QuestionsBefore(secs, i - 1) + Len(secs[i - 1]["questions"].v)

\* The rows hold every question of the response, in order, each under its
\* section.
AllPersisted(rows, response) ==
    LET secs == response["sections"].v
    IN  /\ Len(rows) = TotalQuestions(response)
        /\ \A i \in DOMAIN secs : \A j \in DOMAIN secs[i]["questions"].v :
              LET row == rows[QuestionsBefore(secs, i) + j]
                  q   == secs[i]["questions"].v[j]
              IN  /\ row.question_id = q["id"]
                  /\ row.question_text = q["text"]
                  /\ row.section_title = secs[i]["title"]

\* The store calls of a handler that raise to it (log_activity does not).
StoreFaults == h.faults \ {"log_activity"}

C21_RowsCarryTheirRequest ==
    [][questions' # questions =>
          LET old  == Len(questions)
              new  == SubSeq(questions', old + 1, Len(questions'))
              flat == flatten_questions(h.result)
          IN  /\ SubSeq(questions', 1, old) = questions
              /\ h.gen_id = Len(generation_requests)
              /\ h.gen_id # h.orig_id
              /\ generation_requests[h.gen_id].user_id = h.user_id
              /\ get_questions_for_generation(h.gen_id) = <<>>
              /\ Len(new) = Len(flat)
              /\ \A i \in DOMAIN new :
                    /\ new[i].generation_id = h.gen_id
                    /\ new[i].question_id = flat[i].id
                    /\ new[i].section_title = flat[i].section_title]_vars

\* regenerate of request 1 has returned: the three questions of its response
\* are stored under the new request 2, the row of request 1 is still there.
C21_Witness ==
    /\ h.pc = "done" /\ h.kind = "regenerate"
    /\ h.orig_id = 1 /\ h.gen_id = 2
    /\ Len(get_questions_for_generation(2)) = 3
    /\ Len(get_questions_for_generation(1)) = 1

\* C22: a failure of the activity-log write never propagates. In generate
\* and regenerate the step that calls log_activity, whether the write
\* succeeds or fails, ends the handler with the success response, changes
\* no request, question or key record, and leaves the request completed; the
\* except clause is not entered.
C22_LogFailureSwallowed ==
    [][h.pc = "log" =>
          /\ h'.pc = "done"
          /\ h'.response = "results: success"
          /\ h'.exc = h.exc
          /\ UNCHANGED <<api_keys, generation_requests, questions>>
          /\ generation_requests'[h.gen_id].status = "completed"]_vars

\* generate has returned its success response although the log write
\* failed: nothing was logged and the request is completed.
C22_Witness ==
    /\ h.pc = "done" /\ h.kind = "generate"
    /\ "log_activity" \in h.faults
    /\ activity_logs = <<>>
    /\ h.response = "results: success"
    /\ generation_requests[h.gen_id].status = "completed"

\* The texts validate_jd_word_count is tried on, and what the claim says
\* of a text: it is blank, or it has so many words (a word starts at a
\* character that is no whitespace and follows whitespace or nothing).
MaxTextLen == 4
JdTexts == SeqsUpTo({"x", " "}, MaxTextLen)
Blank(text) == \A i \in DOMAIN text : text[i] = " "
WordCount(text) ==
    Cardinality({i \in DOMAIN text :
                    text[i] # " " /\ (i = 1 \/ text[i - 1] = " ")})

\* C24: validate_jd_word_count returns (False, 0) for empty or
\* whitespace-only text and otherwise (n <= MAX_JD_WORDS, n), n being the
\* number of whitespace-separated words; and a generate whose job
\* description does not pass the check ends without having created a
\* request and without a model call.
C24_WordCountGate ==
    /\ \A text \in JdTexts :
          validate_jd_word_count(text, config.MAX_JD_WORDS) =
              IF Blank(text)
              THEN [is_valid |-> FALSE, word_count |-> 0]
              ELSE [is_valid |-> WordCount(text) <= config.MAX_JD_WORDS,
                    word_count |-> WordCount(text)]
    /\ (/\ h.kind = "generate"
        /\ (Blank(h.job_description)
              \/ WordCount(h.job_description) > config.MAX_JD_WORDS))
          => /\ h.pc = "done"
             /\ h.gen_id = 0
             /\ h.model = NoModel
             /\ h.response \in {"index: missing input", "index: too long"}

\* generate was given three words with MAX_JD_WORDS = 2: it has answered
\* "too long" and the tables hold no request.
C24_Witness ==
    /\ h.pc = "done" /\ h.kind = "generate"
    /\ config.MAX_JD_WORDS = 2
    /\ h.word_count = 3
    /\ h.response = "index: too long"
    /\ generation_requests = <<>>

\* C26: regenerate never changes the original. No step of a regenerate
\* invocation changes the record of the original request (status,
\* role_level, extracted_skills, error_message and the rest) or its question
\* rows, whether the new generation succeeds or fails; a request record
\* that a step changes is the one this invocation created, which is not the
\* original.
C26_RegenerateLeavesOriginal ==
    [][(h.kind = "regenerate" /\ h.orig_id \in DOMAIN generation_requests) =>
          /\ generation_requests'[h.orig_id] = generation_requests[h.orig_id]
          /\ SelectSeq(questions',
                       LAMBDA row : row.generation_id = h.orig_id)
                = get_questions_for_generation(h.orig_id)
          /\ \A id \in DOMAIN generation_requests :
                generation_requests'[id] # generation_requests[id]
                    => (id = h.gen_id /\ id # h.orig_id)]_vars

\* regenerate of request 1 has returned after the new generation failed:
\* the new request 2 is failed, request 1 is as it was.
C26_Witness ==
    /\ h.pc = "done" /\ h.kind = "regenerate"
    /\ h.orig_id = 1 /\ h.gen_id = 2
    /\ generation_requests[2].status = "failed"
    /\ generation_requests[1] = EarlierRequest
    /\ Len(get_questions_for_generation(1)) = 1

----------------------------------------------------------------------------
(* AIService.load_prompt_template, configure_client, generate_questions    *)
(* and generate_answer, called in the threads of one process.              *)
(*                                                                         *)
(* A call is cut into steps where it reads or writes what the threads      *)
(* share: the client configuration set by genai.configure, which           *)
(* model.generate_content uses, and the class attribute _prompts_cache.    *)
(* What a call does on its own locals between two such points is one step. *)

Threads == {1, 2}

\* The prompt files: JSON documents with these keys, in this order. The
\* texts are sequences of words, a placeholder being one word.
TemplateKeys == <<"system_instruction", "user_template">>
TemplateFile(template_name) ==
    [k \in Range(TemplateKeys) |->
        IF k = "system_instruction" THEN <<template_name>>
        ELSE IF template_name = "v1_structured"
        THEN <<"JD:", "{{job_description}}", "MIN:", "{{min_questions}}">>
        ELSE <<"Q:", "{{question_text}}", "SKILL:", "{{skill}}">>]

TemplateName(op) ==
    IF op = "generate_questions" THEN "v1_structured" ELSE "answer_template"

\* str.replace of a placeholder.
Replace(str, placeholder, value) ==
    [i \in DOMAIN str |-> IF str[i] = placeholder THEN value ELSE str[i]]

\* load_prompt_template, line 34: the cache is asked first.
CacheHitNever(cache, template_name) == FALSE

CacheHit(cache, template_name) == template_name \in DOMAIN cache

\* json.load(f) reads the document key by key into a dict of its own and
\* returns it when the document has been read to its end.
ParseNext(template, file) ==
    LET missing == {i \in DOMAIN TemplateKeys : TemplateKeys[i] \notin DOMAIN template}
        i == CHOOSE j \in missing : \A k \in missing : j <= k
    IN  [k \in DOMAIN template \cup {TemplateKeys[i]} |-> file[k]]

LoadCompleteEarly(template, file) == TRUE

LoadComplete(template, file) == DOMAIN template = DOMAIN file

\* AIService._prompts_cache[template_name] = template
CacheStore(cache, template_name, template) ==
    [n \in DOMAIN cache \cup {template_name} |->
        IF n = template_name THEN template ELSE cache[n]]

\* genai.configure(api_key=...) sets the configuration of the process.
NotConfigured == [set |-> FALSE, api_key |-> <<>>]

\* AIService.configure_client: the configuration after the call.
configure_client(configuration, api_key) ==
    IF api_key # <<>>
    THEN [set |-> TRUE, api_key |-> Strip(api_key)]
    ELSE configuration

\* The fingerprint of the key, line 81.
Placeholder == <<"S", "H", "O", "R", "T">>
FingerprintLimit == 10
key_prefix(api_key) ==
    IF Len(api_key) > FingerprintLimit
    THEN SliceTo(api_key, 5) \o <<".", ".", ".">> \o SliceFrom(api_key, 0 - 4)
    ELSE Placeholder

\* line 77: if not api_key
EmptyKeyCheckOff(api_key) == FALSE

EmptyKeyCheck(api_key) == api_key = <<>>

\* --- What the provider does in one model.generate_content call.

\* generate_content raises: the failure modes of the provider, and the call
\* made while no key is configured.
ProviderModes == {"authorization", "quota", "not_found"}
ProviderRaises(mode) == [kind |-> "raises", mode |-> mode, response |-> <<>>]
\* generate_content returns a response without text (blocked): response.text
\* raises ValueError.
ProviderBlocked == [kind |-> "blocked", mode |-> "malformed_or_blocked",
                    response |-> <<>>]
ProviderText == [kind |-> "text", mode |-> "malformed_or_blocked",
                 response |-> <<>>]
ProviderJson(r) == [kind |-> "json", mode |-> "", response |-> r]
\* Free text, which is what generate_answer asks for.
ProviderAnswer  == [kind |-> "answer", mode |-> "", response |-> <<>>]
NoProvider      == [kind |-> "none", mode |-> "", response |-> <<>>]

ProviderError(mode) ==
    CASE mode = "authorization" ->
            [exc |-> "PermissionDenied", msg |-> "403 PERMISSION_DENIED"]
      [] mode = "quota" ->
            [exc |-> "ResourceExhausted", msg |-> "429 RESOURCE_EXHAUSTED"]
      [] mode = "not_found" ->
            [exc |-> "NotFound", msg |-> "404 MODEL_NOT_FOUND"]
      [] mode = "no_key" ->
            [exc |-> "DefaultCredentialsError", msg |-> "No API key configured"]
BlockedError   == [exc |-> "ValueError", msg |-> "response.text: no valid part"]
JsonError      == [exc |-> "JSONDecodeError", msg |-> "Expecting value"]
EmptyKeyError  == [exc |-> "Exception", msg |-> MsgEmptyKey]
FileError      == [exc |-> "FileNotFoundError", msg |-> "No such file or directory"]
KeyError(key)  == [exc |-> "KeyError", msg |-> key]

ZeroQuestionResponse ==
    Response(Range(required_fields), JList(<<Section("T2", JList(<<>>))>>))
OrchResponses == {EarlierResponse, ZeroQuestionResponse}

ProviderOutcomes(op, configuration) ==
    IF ~configuration.set THEN {ProviderRaises("no_key")}
    ELSE {ProviderRaises(mode) : mode \in ProviderModes} \cup {ProviderBlocked}
         \cup (IF op = "generate_questions"
               THEN {ProviderText} \cup {ProviderJson(r) : r \in OrchResponses}
               ELSE {ProviderAnswer})

\* --- The keys the calls are made with.

KeyDotted == <<"a", "a", "a", "a", "a", ".", ".", ".", "b", "b", "b", "b">>
KeyLong   == <<"b", "b", "b", "b", "b", "b", "a", "a", "a", "a", "a">>
KeyShort  == <<"a", "b">>
KeyBlank  == <<" ">>
OrchPlainKeys == {KeyDotted, KeyLong, KeyShort, KeyBlank, <<>>}

\* A stored key: the token encrypt_api_key made of `plain` under `secret`.
OrchKey(plain, secret) ==
    [plain |-> plain, secret |-> secret,
     encrypted |-> FernetEncrypt(secret, StrEncode(plain), 1, 1)]
OrchKeys ==
    {OrchKey(plain, "S1") : plain \in OrchPlainKeys} \cup {OrchKey(KeyLong, "S2")}

OrchConfig ==
    [MIN_QUESTIONS |-> 15, MAX_JD_WORDS |-> 1500, FERNET_SECRET_KEY |-> "S1"]

Ops == {"generate_questions", "generate_answer"}

\* The steps of generate_questions, and those of generate_answer.
QuestionSteps == <<"decrypt", "prompt", "invoke", "parse", "validate">>
AnswerSteps   == <<"decrypt", "prompt", "invoke", "parse">>

\* --- The outcome of a call.

MsgQuestionFailedKey == "Question generation failed (gemini-2.5-flash | Key: "
MsgQuestionFailed    == "Question generation failed (gemini-2.5-flash): "
MsgAnswerFailed      == "Answer generation failed (gemini-2.5-flash): "

\* The call returned `value`.
OrchReturned(value) ==
    [called |-> TRUE, raised |-> FALSE, exc |-> "", msg |-> "",
     fingerprint |-> <<>>, cause |-> "", context |-> "", value |-> value]

\* The call raised Exception(msg + fingerprint + cause) while handling the
\* exception `error`, which Python keeps as its __context__.
OrchRaised(msg, fingerprint, error) ==
    [called |-> TRUE, raised |-> TRUE, exc |-> "Exception", msg |-> msg,
     fingerprint |-> fingerprint, cause |-> error.msg, context |-> error.exc,
     value |-> <<>>]

\* A wrapper that does not pass the cause on.
QuestionErrorBare(bound, fingerprint, error) ==
    OrchRaised(MsgQuestionFailed, <<>>, [exc |-> error.exc, msg |-> ""])

\* generate_questions, lines 127-135: what is raised for `error`; bound
\* tells whether key_prefix was assigned before the error.
QuestionError(bound, fingerprint, error) ==
    IF error.exc = "JSONDecodeError"
    THEN OrchRaised(MsgBadJson, <<>>, error)
    ELSE IF bound
    THEN OrchRaised(MsgQuestionFailedKey, fingerprint, error)
    ELSE OrchRaised(MsgQuestionFailed, <<>>, error)

\* generate_answer, lines 192-193.
AnswerError(error) == OrchRaised(MsgAnswerFailed, <<>>, error)

WrappedError(call, error) ==
    IF call.op = "generate_questions"
    THEN QuestionError(call.bound, call.key_prefix, error)
    ELSE AnswerError(error)

\* --- A call in its thread.

NewCall(op, key, job_description) ==
    [pc |-> "idle", op |-> op, key |-> key,
     job_description |-> job_description,
     api_key |-> <<>>, bound |-> FALSE, key_prefix |-> <<>>,
     template |-> <<>>, user_prompt |-> <<>>,
     steps |-> <<>>, configured |-> FALSE, loaded |-> FALSE,
     invocations |-> 0, used |-> NotConfigured, provider |-> NoProvider,
     outcome |-> NotCalled]

\* The call ends: it raises what the except clause makes of `error`.
\* With one more attempt at the model after a failed one:
FailedCallRetry(call, error) ==
    IF call.invocations = 1 /\ "invoke" \notin Range(call.steps)
    THEN [call EXCEPT !.pc = "invoke"]
    ELSE [call EXCEPT !.pc = "done", !.outcome = WrappedError(call, error)]

FailedCall(call, error) ==
    [call EXCEPT !.pc = "done", !.outcome = WrappedError(call, error)]

ReturnedCall(call, value) ==
    [call EXCEPT !.pc = "done", !.outcome = OrchReturned(value)]

Passed(call, step) == [call EXCEPT !.steps = Append(@, step)]

\* generate_questions lines 76-88 and generate_answer lines 154-155, up to
\* and including configure_client: the call after them and the client
\* configuration after them.
KeyDecrypted(call, cfg, configuration) ==
    LET dec == decrypt_api_key(cfg.FERNET_SECRET_KEY, call.key.encrypted)
    IN  IF dec.raised
        THEN [call |-> FailedCall(call, [exc |-> dec.exc, msg |-> dec.msg]),
              configuration |-> configuration]
        ELSE IF call.op = "generate_questions" /\ EmptyKeyCheck(dec.value)
        THEN [call |-> FailedCall(call, EmptyKeyError),
              configuration |-> configuration]
        ELSE LET api_key == IF call.op = "generate_questions"
                            THEN Strip(dec.value) ELSE dec.value
             IN  [call |-> [Passed(call, "decrypt") EXCEPT
                              !.pc = "load",
                              !.api_key = api_key,
                              !.bound = (call.op = "generate_questions"),
                              !.key_prefix =
                                  IF call.op = "generate_questions"
                                  THEN key_prefix(api_key) ELSE <<>>,
                              !.configured = (api_key # <<>>)],
                  configuration |-> configure_client(configuration, api_key)]

\* The prompt built from the template (lines 94-99 and 161-172); a template
\* without the key read raises KeyError.
question_data == [text |-> "Explain", skill |-> "Python"]
BuildPrompt(call, cfg) ==
    IF "user_template" \notin DOMAIN call.template
    THEN [raised |-> TRUE, error |-> KeyError("user_template"), value |-> <<>>]
    ELSE IF "system_instruction" \notin DOMAIN call.template
    THEN [raised |-> TRUE, error |-> KeyError("system_instruction"), value |-> <<>>]
    ELSE [raised |-> FALSE, error |-> <<>>, value |->
            IF call.op = "generate_questions"
            THEN Replace(Replace(call.template["user_template"],
                                 "{{job_description}}", call.job_description),
                         "{{min_questions}}", ToString(cfg.MIN_QUESTIONS))
            ELSE Replace(Replace(call.template["user_template"],
                                 "{{skill}}", question_data.skill),
                         "{{question_text}}", question_data.text)]

\* model.generate_content under the configuration of the moment, and what
\* the call does with its outcome (lines 108-125 and 181-190).
Invoked(call, cfg, configuration, provider) ==
    LET sent == [Passed(call, "prompt") EXCEPT
                    !.user_prompt = BuildPrompt(call, cfg).value,
                    !.invocations = @ + 1,
                    !.used = configuration,
                    !.provider = provider]
        got  == Passed(sent, "invoke")
    IN  IF BuildPrompt(call, cfg).raised
        THEN FailedCall(call, BuildPrompt(call, cfg).error)
        ELSE IF provider.kind = "raises"
        THEN FailedCall(sent, ProviderError(provider.mode))
        ELSE IF provider.kind = "blocked"
        THEN FailedCall(got, BlockedError)
        ELSE IF call.op = "generate_answer"
        THEN ReturnedCall(Passed(got, "parse"), "answer")
        ELSE IF provider.kind = "text"
        THEN FailedCall(got, JsonError)
        ELSE LET val == _validate_question_response(
                            provider.response, cfg.MIN_QUESTIONS, "ok")
             IN  IF val.raised
                 THEN FailedCall(Passed(got, "parse"),
                                 [exc |-> val.exc, msg |-> val.msg])
                 ELSE ReturnedCall(Passed(Passed(got, "parse"), "validate"),
                                   provider.response)

\* --- The calls: each thread makes one call; the calls run one after the
\* other (sequential) or interleaved.

NoLoads == [n \in {TemplateName(op) : op \in Ops} |-> [reads |-> 0, writes |-> 0]]

InitOrch ==
    /\ config = OrchConfig
    /\ api_keys = <<>> /\ generation_requests = <<>> /\ questions = <<>>
    /\ activity_logs = <<>> /\ h = <<>>
    /\ _prompts_cache = <<>>
    /\ genai_config = NotConfigured
    /\ calls \in [Threads ->
                    {NewCall(op, key, "JD") : op \in Ops, key \in OrchKeys}]
    /\ loads = NoLoads
    /\ sequential \in BOOLEAN
    /\ IdleValidate /\ IdleMask /\ IdleVault /\ IdleFlatten
    /\ IdleRequests /\ IdleOtp

orchOtherVars == <<validateVars, maskVars, vaultVars, handlerVars, flattenVars,
                   requestVars, otpVars>>

\* The call starts: the key is decrypted and the client configured.
StartCall(t) ==
    /\ calls[t].pc = "idle"
    /\ sequential => \A u \in Threads \ {t} : calls[u].pc \in {"idle", "done"}
    /\ LET r == KeyDecrypted(calls[t], config, genai_config)
       IN  /\ calls' = [calls EXCEPT ![t] = r.call]
           /\ genai_config' = r.configuration
    /\ UNCHANGED <<_prompts_cache, loads, sequential, orchOtherVars>>

\* load_prompt_template, lines 34-42: the cached template is returned, or
\* the file is opened (which can fail).
LoadTemplate(t) ==
    /\ calls[t].pc = "load"
    /\ LET template_name == TemplateName(calls[t].op)
       IN  IF CacheHit(_prompts_cache, template_name)
           THEN /\ calls' = [calls EXCEPT
                               ![t].pc = "invoke", ![t].loaded = TRUE,
                               ![t].template = _prompts_cache[template_name]]
                /\ UNCHANGED loads
           ELSE \/ /\ calls' = [calls EXCEPT ![t].pc = "parse"]
                   /\ loads' = [loads EXCEPT ![template_name].reads = @ + 1]
                \/ /\ calls' = [calls EXCEPT ![t] = FailedCall(@, FileError)]
                   /\ UNCHANGED loads
    /\ UNCHANGED <<_prompts_cache, genai_config, sequential, orchOtherVars>>

\* json.load(f) reads on.
Parse(t) ==
    /\ calls[t].pc = "parse"
    /\ LET file == TemplateFile(TemplateName(calls[t].op))
       IN  /\ ~LoadComplete(calls[t].template, file)
           /\ calls' = [calls EXCEPT ![t].template = ParseNext(@, file)]
    /\ UNCHANGED <<_prompts_cache, genai_config, loads, sequential, orchOtherVars>>

\* load_prompt_template, lines 45-46: json.load has returned; the template
\* is put into the cache and returned.
Store(t) ==
    /\ calls[t].pc = "parse"
    /\ LET template_name == TemplateName(calls[t].op)
       IN  /\ LoadComplete(calls[t].template, TemplateFile(template_name))
           /\ _prompts_cache' =
                 CacheStore(_prompts_cache, template_name, calls[t].template)
           /\ loads' = [loads EXCEPT ![template_name].writes = @ + 1]
    /\ calls' = [calls EXCEPT ![t].pc = "invoke", ![t].loaded = TRUE]
    /\ UNCHANGED <<genai_config, sequential, orchOtherVars>>

\* The prompt is built, the model is invoked and its answer is handled.
Invoke(t) ==
    /\ calls[t].pc = "invoke"
    /\ \E provider \in ProviderOutcomes(calls[t].op, genai_config) :
          calls' = [calls EXCEPT
                      ![t] = Invoked(@, config, genai_config, provider)]
    /\ UNCHANGED <<_prompts_cache, genai_config, loads, sequential, orchOtherVars>>

NextOrch ==
    \E t \in Threads :
        \/ StartCall(t) \/ LoadTemplate(t) \/ Parse(t) \/ Store(t) \/ Invoke(t)

SpecOrch == InitOrch /\ [][NextOrch]_vars

\* --- Properties of the template cache.

\* C12: when the calls run one after the other, the file of a template name
\* is read at most once and its cache entry written at most once; once the
\* name is cached no call reads the file, and the cached template stays the
\* content of the file whatever generate_questions and generate_answer do
\* with the template they were given.
C12_LoadedOncePerName ==
    sequential =>
        \A n \in DOMAIN loads :
            /\ loads[n].reads <= 1
            /\ loads[n].writes <= 1
            /\ n \in DOMAIN _prompts_cache
                 => /\ _prompts_cache[n] = TemplateFile(n)
                    /\ loads[n].writes = 1
                    /\ \A t \in Threads :
                          TemplateName(calls[t].op) = n => calls[t].pc # "parse"

\* Two generate_questions calls ran one after the other and both invoked the
\* model: the file was read once, the second call was served from the cache.
C12_Witness ==
    /\ sequential
    /\ \A t \in Threads :
          /\ calls[t].op = "generate_questions"
          /\ calls[t].pc = "done" /\ calls[t].loaded
          /\ calls[t].invocations = 1
    /\ loads["v1_structured"].reads = 1

\* C13: under every interleaving of the calls, a template returned by
\* load_prompt_template is the whole content of the file, and so is every
\* entry of the cache; once a load has returned, the cache holds the entry.
C13_NoTornTemplate ==
    /\ \A n \in DOMAIN _prompts_cache : _prompts_cache[n] = TemplateFile(n)
    /\ \A t \in Threads :
          calls[t].loaded
              => /\ calls[t].template = TemplateFile(TemplateName(calls[t].op))
                 /\ TemplateName(calls[t].op) \in DOMAIN _prompts_cache

\* Two concurrent first loads of v1_structured: both calls found the cache
\* empty, both read the file and both wrote the cache entry.
C13_Witness ==
    /\ ~sequential
    /\ loads["v1_structured"].reads = 2
    /\ loads["v1_structured"].writes = 2
    /\ \A t \in Threads : calls[t].loaded /\ calls[t].pc = "done"

\* --- Properties of the calls.

\* C14 as stated: every model invocation of a call runs under the key
\* decrypted from that call's own encrypted key, never under a key another
\* call configured.
C14_InvocationUsesOwnKey ==
    \A t \in Threads :
        (calls[t].invocations > 0 /\ calls[t].used.set)
            => calls[t].used.api_key = Strip(calls[t].key.plain)

\* C15: generate_questions with a key whose plaintext is empty raises the
\* generation error whose cause is the empty key, without a fingerprint, and
\* the call has not configured the client, loaded no template and not
\* invoked the model.
C15_EmptyKeyRejected ==
    \A t \in Threads :
        (/\ calls[t].op = "generate_questions" /\ calls[t].pc # "idle"
         /\ calls[t].key.secret = config.FERNET_SECRET_KEY
         /\ calls[t].key.plain = <<>>)
            => /\ calls[t].pc = "done"
               /\ calls[t].outcome.raised
               /\ calls[t].outcome.exc = "Exception"
               /\ calls[t].outcome.msg = MsgQuestionFailed
               /\ calls[t].outcome.cause = MsgEmptyKey
               /\ calls[t].outcome.value = <<>>
               /\ ~calls[t].configured /\ ~calls[t].loaded
               /\ calls[t].template = <<>>
               /\ calls[t].invocations = 0
               /\ calls[t].steps = <<>>

\* generate_questions was called with an empty key before anything was
\* configured, and has ended with the client still not configured.
C15_Witness ==
    /\ calls[1].op = "generate_questions" /\ calls[1].key.plain = <<>>
    /\ calls[1].pc = "done"
    /\ calls[2].pc = "idle"
    /\ genai_config = NotConfigured
    /\ _prompts_cache = <<>>

\* s is a prefix of t.
IsPrefix(s, t) == Len(s) <= Len(t) /\ s = SubSeq(t, 1, Len(s))

\* The message of the cause when generate_questions fails at `step`.
CauseAt(call, step) ==
    CASE step = "decrypt" ->
            IF call.key.secret # config.FERNET_SECRET_KEY
            THEN {MsgDecryptFailed} ELSE {MsgEmptyKey}
      [] step = "prompt"   -> {FileError.msg}
      [] step = "invoke"   -> {ProviderError(call.provider.mode).msg}
      [] step = "parse"    -> IF call.provider.kind = "blocked"
                              THEN {BlockedError.msg} ELSE {JsonError.msg}
      [] step = "validate" -> {MsgNoQuestions}

\* C16: generate_questions passes key decryption, prompt construction, model
\* invocation, JSON parsing and schema validation in this order; it returns
\* a result only after all five, and a failure at one of them ends the call
\* before the later ones, raising an error that carries the message of the
\* cause and returning nothing.
C16_StepsInOrder ==
    \A t \in Threads :
        calls[t].op = "generate_questions"
            => /\ IsPrefix(calls[t].steps, QuestionSteps)
               /\ calls[t].pc = "done"
                    => IF calls[t].outcome.raised
                       THEN /\ calls[t].steps # QuestionSteps
                            /\ calls[t].outcome.value = <<>>
                            /\ calls[t].outcome.cause \in
                                 CauseAt(calls[t],
                                         QuestionSteps[Len(calls[t].steps) + 1])
                       ELSE /\ calls[t].steps = QuestionSteps
                            /\ calls[t].outcome.value = calls[t].provider.response
                            /\ WellFormed(calls[t].outcome.value)

\* One generate_questions call has failed at schema validation, the other
\* has returned a result.
C16_Witness ==
    /\ calls[1].op = "generate_questions" /\ calls[1].pc = "done"
    /\ calls[1].steps = <<"decrypt", "prompt", "invoke", "parse">>
    /\ calls[1].outcome.raised
    /\ calls[2].op = "generate_questions" /\ calls[2].pc = "done"
    /\ ~calls[2].outcome.raised

\* C17: a call of generate_questions or generate_answer invokes the model
\* at most once, and a call that has ended after a failed invocation, a
\* failed parse or a failed validation has invoked it exactly once.
C17_AtMostOneInvocation ==
    \A t \in Threads :
        /\ calls[t].invocations <= 1
        /\ (calls[t].pc = "done" /\ calls[t].provider.kind # "none")
              => calls[t].invocations = 1

\* A generate_questions call whose response failed validation and a
\* generate_answer call whose invocation failed on quota have both ended.
C17_Witness ==
    /\ calls[1].op = "generate_questions" /\ calls[1].pc = "done"
    /\ calls[1].outcome.raised /\ calls[1].provider.kind = "json"
    /\ calls[2].op = "generate_answer" /\ calls[2].pc = "done"
    /\ calls[2].outcome.raised /\ calls[2].provider.mode = "quota"

\* sub occurs in s as a contiguous substring.
Contains(s, sub) ==
    \E i \in 0..(Len(s) - Len(sub)) : SubSeq(s, i + 1, i + Len(sub)) = sub

\* C18 as stated: when the model call of generate_questions fails, the
\* error raised is the one wrapped error with the fingerprint of the key
\* used, the fingerprint is the first 5 and last 4 characters of the key
\* around "..." (the placeholder for a key of at most 10 characters), and
\* the fingerprint does not contain the key.
C18_FingerprintHidesKey ==
    \A t \in Threads :
        (/\ calls[t].op = "generate_questions" /\ calls[t].pc = "done"
         /\ calls[t].provider.kind = "raises"
         /\ calls[t].api_key # <<>>)
            => /\ calls[t].outcome.raised
               /\ calls[t].outcome.exc = "Exception"
               /\ calls[t].outcome.msg = MsgQuestionFailedKey
               /\ calls[t].outcome.fingerprint = key_prefix(calls[t].api_key)
               /\ ~Contains(calls[t].outcome.fingerprint, calls[t].api_key)

\* The failure modes of the provider the callers are to tell apart.
FailureModes == {"authorization", "quota", "malformed_or_blocked", "not_found"}

\* C19 as stated: two calls that failed in different failure modes of the
\* provider raise errors of different categories (types).
C19_DistinctErrorCategories ==
    \A t, u \in Threads :
        (/\ calls[t].pc = "done" /\ calls[u].pc = "done"
         /\ calls[t].outcome.raised /\ calls[u].outcome.raised
         /\ calls[t].provider.mode \in FailureModes
         /\ calls[u].provider.mode \in FailureModes
         /\ calls[t].provider.mode # calls[u].provider.mode)
            => calls[t].outcome.exc # calls[u].outcome.exc

----------------------------------------------------------------------------
(* flatten_questions on its own.                                           *)

\* Sections of either title with every list of questions, and a section
\* without the questions key.
FlattenSections ==
    { Section(title, JList(qs)) :
        title \in {"T1", "T2"}, qs \in SeqsUpTo(QuestionPool, MaxQuestions) }
    \cup { Section("T2", NoKey) }

\* Structured results, and a dict without the sections key.
FlattenResults ==
    { Response(keys, JList(secs)) :
        keys \in {Range(required_fields), {"sections"}},
        secs \in SeqsUpTo(FlattenSections, MaxSections) }
    \cup { Response({"role_level"}, JList(<<>>)) }

InitFlatten ==
    /\ f_result \in FlattenResults
    /\ f_out = NotCalled
    /\ IdleValidate /\ IdleMask /\ IdleVault /\ IdleHandler /\ IdleOrch
    /\ IdleRequests /\ IdleOtp

Flatten ==
    /\ ~f_out.called
    /\ f_out' = [called |-> TRUE, value |-> flatten_questions(f_result)]
    /\ UNCHANGED <<f_result, validateVars, maskVars, vaultVars, handlerVars,
                   orchVars, requestVars, otpVars>>

NextFlatten == Flatten

SpecFlatten == InitFlatten /\ [][NextFlatten]_vars

\* The number of questions of a section, and of the sections before the
\* i-th.
SectionCount(section) ==
    IF "questions" \in DOMAIN section THEN Len(section["questions"].v) ELSE 0
RECURSIVE CountBefore(_, _)
CountBefore(secs, i) ==
    IF i <= 1 THEN 0 ELSE CountBefore(secs, i - 1) + SectionCount(secs[i - 1])

\* C20: for sections holding c1..ck questions flatten_questions returns
\* c1 + ... + ck records; the j-th question of the i-th section is the
\* record at position c1 + ... + c(i-1) + j, with its own id, type,
\* difficulty, text and expected signals (None or [] for a field it lacks)
\* and the title and skill of the i-th section; a section without questions
\* adds no record.
C20_FlattenKeepsOrderAndSection ==
    f_out.called
        => LET secs == IF "sections" \in DOMAIN f_result
                       THEN f_result["sections"].v ELSE <<>>
               out  == f_out.value
           IN  /\ Len(out) = CountBefore(secs, Len(secs) + 1)
               /\ \A i \in DOMAIN secs : \A j \in 1..SectionCount(secs[i]) :
                     LET rec == out[CountBefore(secs, i) + j]
                         q   == secs[i]["questions"].v[j]
                     IN  /\ rec.id = q["id"]
                         /\ rec.type = q["type"]
                         /\ rec.difficulty = q["difficulty"]
                         /\ rec.text = IF "text" \in DOMAIN q
                                       THEN q["text"] ELSE None
                         /\ rec.expected_signals =
                               IF "expected_signals" \in DOMAIN q
                               THEN q["expected_signals"] ELSE "[]"
                         /\ rec.section_title = secs[i]["title"]
                         /\ rec.skill = secs[i]["skill"]

\* A result was flattened whose first section has no question and whose
\* second section, of another title, has the most a section can have.
C20_Witness ==
    /\ f_out.called
    /\ "sections" \in DOMAIN f_result
    /\ Len(f_result["sections"].v) = 2
    /\ f_result["sections"].v[1] = Section("T1", JList(<<>>))
    /\ f_result["sections"].v[2]["title"] = "T2"
    /\ SectionCount(f_result["sections"].v[2]) = MaxQuestions
    /\ Len(f_out.value) = MaxQuestions

----------------------------------------------------------------------------
(* Requests of signed-in users served concurrently by the threads of the   *)
(* application: generate_answer and results (app/routes/generation.py),    *)
(* add_key and delete_key (app/routes/profile.py), toggle_favorite and     *)
(* dashboard (app/routes/web.py), with the store operations they call.     *)
(*                                                                         *)
(* A thread serves one request; a step is one call of the store or of the  *)
(* model. A store call either succeeds or raises, and changes nothing when *)
(* it raises. The id of a question row is its position in the table.       *)

\* What an earlier generate of u1 with key k1 has left: a completed request
\* and the rows of two questions in two sections.
StoredResponse ==
    Response(Range(required_fields),
             JList(<<Section("T1", JList(<<GoodQuestion("q1")>>)),
                     Section("T2", JList(<<GoodQuestion("q2")>>))>>))

RequestConfigs == {c \in Configs : c.MIN_QUESTIONS = 15}

\* The texts the model returns as an answer, after strip().
Answers == {"A1", "A2"}

\* if question_data.get('generated_answer'): the stored answer is truthy.
HasAnswer(row) == row.generated_answer \notin {None, ""}

\* SupabaseService.update_question_answer: the table after the update.
update_question_answer(question_id, answer) ==
    [questions EXCEPT ![question_id].generated_answer = answer]

\* .order('created_at'): the rows in an order of non-decreasing created_at;
\* the database returns rows of equal created_at in any order.
OrderByCreatedAt(rows) ==
    LET n == Len(rows)
        perms == {f \in [1..n -> 1..n] : \A i, j \in 1..n : i # j => f[i] # f[j]}
    IN  {[i \in 1..n |-> rows[f[i]]] : f \in
            {g \in perms : \A i \in 1..(n - 1) :
                rows[g[i]].created_at <= rows[g[i + 1]].created_at}}

\* The grouping of results and of history view: a dict keyed by section
\* title, in the order the titles first come up in the rows.
RECURSIVE FirstTitles(_)
FirstTitles(rows) ==
    IF rows = <<>> THEN <<>>
    ELSE LET rest  == FirstTitles(SubSeq(rows, 1, Len(rows) - 1))
             title == rows[Len(rows)].section_title
         IN  IF title \in Range(rest) THEN rest ELSE Append(rest, title)
GroupBySection(rows) ==
    [i \in DOMAIN FirstTitles(rows) |->
        [title |-> FirstTitles(rows)[i],
         questions |-> SelectSeq(rows,
             LAMBDA row : row.section_title = FirstTitles(rows)[i])]]

\* The rows of questions whose id is in ids (.in_('id', question_ids)).
RECURSIVE RowsFrom(_, _)
RowsFrom(i, ids) ==
    IF i > Len(questions) THEN <<>>
    ELSE (IF i \in ids THEN <<questions[i]>> ELSE <<>>) \o RowsFrom(i + 1, ids)

\* What the provider does with the probe request of test_api_key.
Probes == {"ok", "403", "400", "429", "404", "500"}

\* AIService.test_api_key: whether the key is reported valid.
MinKeyLength == 10
test_api_key(api_key, probe) ==
    IF api_key = <<>> \/ Len(api_key) < MinKeyLength THEN FALSE
    ELSE probe \in {"ok", "404"}

\* A create_api_key that stores the key as it was typed.
create_api_key_plain(secret, user_id, key_name, api_key, iv) ==
    [raised |-> FALSE, msg |-> "",
     record |-> [user_id |-> user_id, key_name |-> key_name,
                 usage_count |-> 0, encrypted_key |-> Text(api_key)]]

\* SupabaseService.create_api_key: the record inserted, unless
\* encrypt_api_key raises.
create_api_key(secret, user_id, key_name, api_key, iv) ==
    LET enc == encrypt_api_key(secret, api_key, iv, 1)
    IN  IF enc.raised
        THEN [raised |-> TRUE, msg |-> enc.msg, record |-> <<>>]
        ELSE [raised |-> FALSE, msg |-> "",
              record |-> [user_id |-> user_id, key_name |-> key_name,
                          usage_count |-> 0, encrypted_key |-> enc.value]]

\* --- Inputs of the requests.
KeyNames == {"work"}
FormKeys == {KeyLong, KeyShort}
KeyIds   == {"k1", "k2"}
NewKeyId(t) == IF t = 1 THEN "k3" ELSE "k4"

\* --- The requests.
RequestIdle ==
    [pc |-> "idle", kind |-> "", user_id |-> "", arg |-> 0, key_id |-> "",
     key_name |-> "", api_key |-> <<>>, probe |-> "", row |-> <<>>,
     encrypted_key |-> <<>>, answer |-> None, existing |-> FALSE, ids |-> {},
     status |-> 0, msg |-> "", rows |-> <<>>, sections |-> <<>>,
     invoked |-> "", wrote |-> FALSE, deleted |-> FALSE,
     deleted_before |-> {}, faults |-> {}]

\* The handler returns a response with this status code.
Served(r, status, msg) == [r EXCEPT !.pc = "done", !.status = status, !.msg = msg]

\* The keys for which delete_api_key has returned, having deleted or renamed
\* the key.
DeletedKeys == {reqs[t].key_id : t \in {u \in Threads : reqs[u].deleted}}

InitRequests ==
    /\ config \in RequestConfigs
    /\ api_keys = InitialApiKeys
    /\ generation_requests = <<EarlierRequest>>
    /\ \E stamps \in ClockReadings(2) :
          questions = QuestionRecords(1, flatten_questions(StoredResponse),
                                      stamps)
    /\ activity_logs = <<>>
    /\ h = <<>>
    /\ favorites = {}
    /\ reqs = [t \in Threads |-> RequestIdle]
    /\ IdleValidate /\ IdleMask /\ IdleVault /\ IdleOrch /\ IdleFlatten
    /\ IdleOtp

requestOtherVars ==
    <<config, h, validateVars, maskVars, vaultVars, orchVars, flattenVars,
      otpVars>>

\* --- generate_answer (generation.py 218-279).

\* Lines 223-233: the question row is read.
AnswerStart(t) ==
    /\ reqs[t].pc = "idle"
    /\ \E user \in Users, question_id \in 1..(Len(questions) + 1),
          ok \in BOOLEAN :
          LET r == [reqs[t] EXCEPT !.kind = "generate_answer",
                                   !.user_id = user, !.arg = question_id,
                                   !.deleted_before = DeletedKeys]
          IN  reqs' = [reqs EXCEPT ![t] =
                  IF ~ok THEN Served(r, 500, MsgStore)
                  ELSE IF question_id \notin DOMAIN questions
                  THEN Served(r, 404, "Question entries not found for this ID")
                  ELSE [r EXCEPT !.pc = "a_request",
                                 !.row = questions[question_id]]]
    /\ UNCHANGED <<api_keys, generation_requests, questions, activity_logs,
                   favorites, requestOtherVars>>

\* Lines 235-247: the owner is checked, a stored answer is returned.
AnswerOwnership(t) ==
    /\ reqs[t].pc = "a_request"
    /\ \E ok \in BOOLEAN :
          LET r   == reqs[t]
              gen == generation_requests[r.row.generation_id]
          IN  reqs' = [reqs EXCEPT ![t] =
                  IF ~ok THEN Served(r, 500, MsgStore)
                  ELSE IF gen.user_id # r.user_id
                  THEN Served(r, 403, "Access Denied")
                  ELSE IF HasAnswer(r.row)
                  THEN [Served(r, 200, "answer")
                           EXCEPT !.answer = r.row.generated_answer]
                  ELSE [r EXCEPT !.pc = "a_key", !.key_id = gen.api_key_id]]
    /\ UNCHANGED <<api_keys, generation_requests, questions, activity_logs,
                   favorites, requestOtherVars>>

\* Lines 249-255: the key record is read from the table api_keys by its id.
AnswerKey(t) ==
    /\ reqs[t].pc = "a_key"
    /\ \E ok \in BOOLEAN :
          LET r == reqs[t]
          IN  reqs' = [reqs EXCEPT ![t] =
                  IF ~ok THEN Served(r, 500, MsgStore)
                  ELSE IF r.key_id \notin DOMAIN api_keys
                  THEN Served(r, 404, "Associated API key has been deleted")
                  ELSE [r EXCEPT !.pc = "a_model",
                                 !.encrypted_key =
                                     api_keys[r.key_id].encrypted_key]]
    /\ UNCHANGED <<api_keys, generation_requests, questions, activity_logs,
                   favorites, requestOtherVars>>

\* Line 268: AIService.generate_answer with the key read.
AnswerModel(t) ==
    /\ reqs[t].pc = "a_model"
    /\ LET r   == reqs[t]
           dec == decrypt_api_key(config.FERNET_SECRET_KEY, r.encrypted_key)
       IN  \/ /\ dec.raised
              /\ reqs' = [reqs EXCEPT ![t] = Served(r, 500, MsgAnswerFailed)]
           \/ /\ ~dec.raised
              /\ reqs' = [reqs EXCEPT ![t] =
                    [Served(r, 500, MsgAnswerFailed)
                        EXCEPT !.invoked = r.key_id]]
           \/ /\ ~dec.raised
              /\ \E answer \in Answers :
                    reqs' = [reqs EXCEPT ![t] =
                        [r EXCEPT !.pc = "a_save", !.invoked = r.key_id,
                                  !.answer = answer]]
    /\ UNCHANGED <<api_keys, generation_requests, questions, activity_logs,
                   favorites, requestOtherVars>>

\* Line 271: update_question_answer.
AnswerSave(t) ==
    /\ reqs[t].pc = "a_save"
    /\ LET r == reqs[t]
       IN  \/ /\ questions' = update_question_answer(r.arg, r.answer)
              /\ reqs' = [reqs EXCEPT ![t] =
                    [r EXCEPT !.pc = "a_log", !.wrote = TRUE]]
           \/ /\ reqs' = [reqs EXCEPT ![t] =
                    [Served(r, 500, MsgStore) EXCEPT !.answer = None]]
              /\ UNCHANGED questions
    /\ UNCHANGED <<api_keys, generation_requests, activity_logs, favorites,
                   requestOtherVars>>

\* The log_activity call that ends a handler, and its success response.
LogAndServe(t, pc, action, entity_type, entity_id, metadata, status, msg) ==
    /\ reqs[t].pc = pc
    /\ \E ok \in BOOLEAN :
          LET r   == reqs[t]
              out == log_activity(activity_logs,
                        [user_id |-> r.user_id, action |-> action,
                         entity_type |-> entity_type, entity_id |-> entity_id,
                         metadata |-> metadata], ok)
              noted == IF ok THEN r.faults ELSE r.faults \cup {"log_activity"}
          IN  /\ activity_logs' = out.logs
              /\ reqs' = [reqs EXCEPT ![t] =
                    IF out.raised
                    THEN [Served(r, 500, MsgStore) EXCEPT !.faults = noted]
                    ELSE [Served(r, status, msg) EXCEPT !.faults = noted]]
    /\ UNCHANGED <<api_keys, generation_requests, questions, favorites,
                   requestOtherVars>>

\* Lines 273-276.
AnswerLog(t) ==
    LogAndServe(t, "a_log", "generate_answer", "question", reqs[t].arg,
                <<>>, 200, "answer")

\* --- delete_key (profile.py 100-115) and delete_api_key.

\* The key is a row of the table owned by the user.
OwnKey(key_id, user_id) ==
    key_id \in DOMAIN api_keys /\ api_keys[key_id].user_id = user_id

\* A generation request refers to the key (foreign key api_key_id).
Referenced(key_id) ==
    \E g \in DOMAIN generation_requests :
        generation_requests[g].api_key_id = key_id

\* supabase_service.py 265-269: get_client and the hard delete. The delete
\* raises when a generation request refers to the row, or for any other
\* failure of the call.
DeleteStart(t) ==
    /\ reqs[t].pc = "idle"
    /\ \E user \in Users, key_id \in KeyIds,
          call \in {"no client", "raises", "ok"} :
          LET r == [reqs[t] EXCEPT !.kind = "delete_key", !.user_id = user,
                                   !.key_id = key_id]
              own == OwnKey(key_id, user)
          IN  IF call = "no client"
              THEN /\ reqs' = [reqs EXCEPT ![t] =
                         Served(r, 302, "Failed to delete API key")]
                   /\ UNCHANGED api_keys
              ELSE IF call = "raises" \/ (own /\ Referenced(key_id))
              THEN /\ reqs' = [reqs EXCEPT ![t] = [r EXCEPT !.pc = "d_rename"]]
                   /\ UNCHANGED api_keys
              ELSE /\ api_keys' =
                         IF own
                         THEN [k \in DOMAIN api_keys \ {key_id} |-> api_keys[k]]
                         ELSE api_keys
                   /\ reqs' = [reqs EXCEPT ![t] =
                         [r EXCEPT !.pc = "d_log", !.deleted = own]]
    /\ UNCHANGED <<generation_requests, questions, activity_logs, favorites,
                   requestOtherVars>>

\* supabase_service.py 270-277: the soft delete, a rename of the key.
DeleteRename(t) ==
    /\ reqs[t].pc = "d_rename"
    /\ LET r   == reqs[t]
           own == OwnKey(r.key_id, r.user_id)
       IN  \/ /\ api_keys' =
                    IF own
                    THEN [api_keys EXCEPT ![r.key_id].key_name = DeletedName]
                    ELSE api_keys
              /\ reqs' = [reqs EXCEPT ![t] =
                    [r EXCEPT !.pc = "d_log", !.deleted = own]]
           \/ /\ reqs' = [reqs EXCEPT ![t] =
                    Served(r, 302, "Failed to delete API key")]
              /\ UNCHANGED api_keys
    /\ UNCHANGED <<generation_requests, questions, activity_logs, favorites,
                   requestOtherVars>>

\* profile.py 109-115.
DeleteLog(t) ==
    LogAndServe(t, "d_log", "delete_api_key", "api_key", reqs[t].key_id,
                <<>>, 302, "API key deleted successfully.")

\* --- add_key (profile.py 63-97).

\* Lines 71-85: the form is read and the key is tested.
AddKeyStart(t) ==
    /\ reqs[t].pc = "idle"
    /\ \E user \in Users, key_name \in KeyNames, api_key \in FormKeys,
          probe \in Probes :
          LET r == [reqs[t] EXCEPT !.kind = "add_key", !.user_id = user,
                                   !.key_name = key_name,
                                   !.api_key = api_key, !.probe = probe]
          IN  reqs' = [reqs EXCEPT ![t] =
                  IF ~test_api_key(api_key, probe)
                  THEN Served(r, 200, "API key validation failed")
                  ELSE [r EXCEPT !.pc = "k_create", !.key_id = NewKeyId(t)]]
    /\ UNCHANGED <<api_keys, generation_requests, questions, activity_logs,
                   favorites, requestOtherVars>>

\* Line 88: create_api_key; an exception is flashed by the except clause.
AddKeyCreate(t) ==
    /\ reqs[t].pc = "k_create"
    /\ \E iv \in IVs :
          LET r       == reqs[t]
              created == create_api_key(config.FERNET_SECRET_KEY, r.user_id,
                                        r.key_name, r.api_key, iv)
          IN  \/ /\ created.raised
                 /\ reqs' = [reqs EXCEPT ![t] =
                       Served(r, 200, "Failed to add API key")]
                 /\ UNCHANGED api_keys
              \/ /\ ~created.raised
                 /\ api_keys' = (r.key_id :> created.record) @@ api_keys
                 /\ reqs' = [reqs EXCEPT ![t] = [r EXCEPT !.pc = "k_log"]]
              \/ /\ ~created.raised
                 /\ reqs' = [reqs EXCEPT ![t] =
                       [Served(r, 200, "Failed to add API key")
                           EXCEPT !.faults = @ \cup {"create_api_key"}]]
                 /\ UNCHANGED api_keys
    /\ UNCHANGED <<generation_requests, questions, activity_logs, favorites,
                   requestOtherVars>>

\* Lines 90-93.
AddKeyLog(t) ==
    LogAndServe(t, "k_log", "create_api_key", "api_key", None,
                [key_name |-> reqs[t].key_name], 302,
                "API key added successfully!")

\* --- toggle_favorite (web.py 44-54, supabase_service.py 457-489).

Favorite(user_id, question_id) ==
    [user_id |-> user_id, question_id |-> question_id]

\* The select of the user's favorite for the question.
FavoriteStart(t) ==
    /\ reqs[t].pc = "idle"
    /\ \E user \in Users, question_id \in DOMAIN questions, ok \in BOOLEAN :
          LET r == [reqs[t] EXCEPT !.kind = "toggle_favorite",
                                   !.user_id = user, !.arg = question_id]
          IN  reqs' = [reqs EXCEPT ![t] =
                  IF ~ok THEN Served(r, 500, MsgStore)
                  ELSE [r EXCEPT !.pc = "f_write",
                                 !.existing =
                                     Favorite(user, question_id) \in favorites]]
    /\ UNCHANGED <<api_keys, generation_requests, questions, activity_logs,
                   favorites, requestOtherVars>>

\* The delete of the favorite found, or the insert of a new one.
FavoriteWrite(t) ==
    /\ reqs[t].pc = "f_write"
    /\ LET r   == reqs[t]
           fav == Favorite(r.user_id, r.arg)
       IN  \/ /\ favorites' = IF r.existing THEN favorites \ {fav}
                              ELSE favorites \cup {fav}
              /\ reqs' = [reqs EXCEPT ![t] =
                    Served(r, 200, IF r.existing THEN "favored: false"
                                   ELSE "favored: true")]
           \/ /\ reqs' = [reqs EXCEPT ![t] = Served(r, 500, MsgStore)]
              /\ UNCHANGED favorites
    /\ UNCHANGED <<api_keys, generation_requests, questions, activity_logs,
                   requestOtherVars>>

\* --- dashboard (web.py 34-41) and get_user_favorites.

\* The select of the user's favorites.
DashboardStart(t) ==
    /\ reqs[t].pc = "idle"
    /\ \E user \in Users, ok \in BOOLEAN :
          LET r   == [reqs[t] EXCEPT !.kind = "dashboard", !.user_id = user]
              ids == {f.question_id : f \in {g \in favorites : g.user_id = user}}
          IN  reqs' = [reqs EXCEPT ![t] =
                  IF ~ok THEN Served(r, 500, MsgStore)
                  ELSE IF ids = {} THEN Served(r, 200, "dashboard")
                  ELSE [r EXCEPT !.pc = "b_questions", !.ids = ids]]
    /\ UNCHANGED <<api_keys, generation_requests, questions, activity_logs,
                   favorites, requestOtherVars>>

\* The select of the questions with these ids; they are rendered.
DashboardQuestions(t) ==
    /\ reqs[t].pc = "b_questions"
    /\ \E ok \in BOOLEAN :
          LET r == reqs[t]
          IN  reqs' = [reqs EXCEPT ![t] =
                  IF ~ok THEN Served(r, 500, MsgStore)
                  ELSE [Served(r, 200, "dashboard")
                           EXCEPT !.rows = RowsFrom(1, r.ids)]]
    /\ UNCHANGED <<api_keys, generation_requests, questions, activity_logs,
                   favorites, requestOtherVars>>

\* --- results (generation.py 111-140); history view and the exports read
\* the request and its questions with the same two calls.

\* get_generation_request(gen_id, user_id).
ResultsStart(t) ==
    /\ reqs[t].pc = "idle"
    /\ \E user \in Users, gen_id \in 1..(Len(generation_requests) + 1),
          ok \in BOOLEAN :
          LET r == [reqs[t] EXCEPT !.kind = "results", !.user_id = user,
                                   !.arg = gen_id]
          IN  reqs' = [reqs EXCEPT ![t] =
                  IF ~ok THEN Served(r, 500, MsgStore)
                  ELSE IF get_generation_request(gen_id, user) = 0
                  THEN Served(r, 302, "Generation not found.")
                  ELSE [r EXCEPT !.pc = "r_questions"]]
    /\ UNCHANGED <<api_keys, generation_requests, questions, activity_logs,
                   favorites, requestOtherVars>>

\* get_questions_for_generation(gen_id) and the grouping by section.
ResultsQuestions(t) ==
    /\ reqs[t].pc = "r_questions"
    /\ LET r == reqs[t]
       IN  \/ \E rows \in OrderByCreatedAt(get_questions_for_generation(r.arg)) :
                 reqs' = [reqs EXCEPT ![t] =
                     [Served(r, 200, "results")
                         EXCEPT !.rows = rows,
                                !.sections = GroupBySection(rows)]]
           \/ reqs' = [reqs EXCEPT ![t] = Served(r, 500, MsgStore)]
    /\ UNCHANGED <<api_keys, generation_requests, questions, activity_logs,
                   favorites, requestOtherVars>>

NextRequests ==
    \E t \in Threads :
        \/ AnswerStart(t) \/ AnswerOwnership(t) \/ AnswerKey(t)
        \/ AnswerModel(t) \/ AnswerSave(t) \/ AnswerLog(t)
        \/ DeleteStart(t) \/ DeleteRename(t) \/ DeleteLog(t)
        \/ AddKeyStart(t) \/ AddKeyCreate(t) \/ AddKeyLog(t)
        \/ FavoriteStart(t) \/ FavoriteWrite(t)
        \/ DashboardStart(t) \/ DashboardQuestions(t)
        \/ ResultsStart(t) \/ ResultsQuestions(t)

SpecRequests == InitRequests /\ [][NextRequests]_vars

\* --- Properties of the requests.

\* The request has read its question row.
HasRow(r) == DOMAIN r.row # {}

\* A later answer request, one that read the row with an answer stored,
\* makes no model call and returns the answer it read.
StoredAnswerServed(r) ==
    (r.kind = "generate_answer" /\ HasRow(r) /\ HasAnswer(r.row))
        => /\ r.invoked = ""
           /\ ~r.wrote
           /\ r.status = 200 => r.answer = r.row.generated_answer

\* C27 as stated: once a question has a non-empty generated_answer no step
\* changes it, every answer request that finds an answer stored returns it
\* without a model call, and under every interleaving of answer requests for
\* one question at most one of them writes the answer.
C27_AnswerNeverOverwritten ==
    [][/\ \A q \in DOMAIN questions :
             HasAnswer(questions[q])
                => questions'[q].generated_answer
                       = questions[q].generated_answer
       /\ \A q \in DOMAIN questions :
             Cardinality({t \in Threads :
                             reqs'[t].wrote /\ reqs'[t].arg = q}) <= 1
       /\ \A t \in Threads : StoredAnswerServed(reqs'[t])]_vars

\* C28 as stated: after delete_api_key has returned for a key of the user
\* (the row deleted, or renamed when the key has history) get_api_keys does
\* not return the key, and no answer request that starts later invokes the
\* model with it. (generate and regenerate take their key from
\* get_api_keys, see SelectKey.)
C28_DeletedKeyNotUsed ==
    /\ \A t \in Threads :
          reqs[t].deleted
              => reqs[t].key_id \notin get_api_keys(reqs[t].user_id)
    /\ \A t \in Threads :
          (reqs[t].kind = "generate_answer" /\ reqs[t].invoked # "")
              => reqs[t].invoked \notin reqs[t].deleted_before

\* C29 as stated: every handler that returns question content returns only
\* questions of generation requests of the session user: the rows in a
\* response of results and of the dashboard, and the question an answer is
\* returned for.
C29_OnlyOwnQuestionsReturned ==
    \A t \in Threads :
        LET r == reqs[t]
        IN  /\ \A i \in DOMAIN r.rows :
                  generation_requests[r.rows[i].generation_id].user_id
                      = r.user_id
            /\ (r.kind = "generate_answer" /\ r.status = 200)
                  => generation_requests[r.row.generation_id].user_id
                         = r.user_id

\* The question ids of rows, in their order.
QuestionIds(rows) == [i \in DOMAIN rows |-> rows[i].question_id]

\* C25 as stated: the questions a results page reads back for a generation
\* are in the order in which they were inserted, the flatten order of the
\* model response, and the page groups each question under the section it
\* came from, the questions of a section in that order.
C25_ReadBackInFlattenOrder ==
    \A t \in Threads :
        LET r      == reqs[t]
            flat   == flatten_questions(StoredResponse)
            stored == get_questions_for_generation(r.arg)
        IN  (r.kind = "results" /\ r.status = 200) =>
                /\ QuestionIds(r.rows) = QuestionIds(stored)
                /\ Len(r.rows) = Len(flat)
                /\ \A i \in DOMAIN r.rows :
                      /\ r.rows[i].question_id = flat[i].id
                      /\ r.rows[i].section_title = flat[i].section_title
                /\ \A i \in DOMAIN r.sections :
                      QuestionIds(r.sections[i].questions) =
                          QuestionIds(SelectSeq(stored,
                              LAMBDA row :
                                  row.section_title = r.sections[i].title))

\* The activity-log records of the add-key flow that hold nothing of the
\* key typed.
AddKeyLogRecords ==
    {[user_id |-> u, action |-> "create_api_key", entity_type |-> "api_key",
      entity_id |-> None, metadata |-> [key_name |-> n]] :
        u \in Users, n \in KeyNames}

\* C23: no plaintext API key is written to the store by the add-key flow.
\* The api_keys record the flow creates holds in encrypted_key an output of
\* encrypt_api_key for the key typed (not the typed text, and decrypting to
\* it) and in its other fields the user, the name typed and a zero counter;
\* the activity-log record of the flow holds the user and the name only;
\* and the record exists only if test_api_key reported the key valid.
C23_NoPlaintextKeyStored ==
    /\ \A t \in Threads :
          (reqs[t].kind = "add_key" /\ NewKeyId(t) \in DOMAIN api_keys) =>
              LET r      == reqs[t]
                  record == api_keys[NewKeyId(t)]
                  secret == config.FERNET_SECRET_KEY
              IN  /\ test_api_key(r.api_key, r.probe)
                  /\ \E iv \in IVs :
                        record.encrypted_key
                            = encrypt_api_key(secret, r.api_key, iv, 1).value
                  /\ record.encrypted_key # Text(r.api_key)
                  /\ decrypt_api_key(secret, record.encrypted_key).value
                         = r.api_key
                  /\ record = [user_id |-> r.user_id, key_name |-> r.key_name,
                               usage_count |-> 0,
                               encrypted_key |-> record.encrypted_key]
    /\ \A k \in DOMAIN api_keys : k \in KeyIds \/ \E t \in Threads :
          reqs[t].kind = "add_key" /\ k = NewKeyId(t)
    /\ \A i \in DOMAIN activity_logs :
          activity_logs[i].action = "create_api_key"
              => activity_logs[i] \in AddKeyLogRecords

\* add_key has stored a key that the probe answered with 404 and has logged
\* it: the record holds a token that decrypts to the key typed.
C23_Witness ==
    \E t \in Threads :
        /\ reqs[t].kind = "add_key" /\ reqs[t].pc = "done"
        /\ reqs[t].status = 302
        /\ reqs[t].probe = "404"
        /\ reqs[t].api_key = KeyLong
        /\ NewKeyId(t) \in DOMAIN api_keys
        /\ \E i \in DOMAIN activity_logs :
              activity_logs[i].action = "create_api_key"

----------------------------------------------------------------------------
(* OTPService (app/services/security_service.py): generate_otp and         *)
(* verify_otp called one after the other on the in-memory _otp_store,      *)
(* while the time passes.                                                  *)

MaxAttemptLimit == 3    \* the largest MAX_OTP_ATTEMPTS tried
MaxTime == 3            \* the clock stops here

Emails == {"e1", "e2"}
Codes  == {"c1", "c2"}

OtpConfigs ==
    {[MAX_OTP_ATTEMPTS |-> n, OTP_EXPIRY_MINUTES |-> m] :
        n \in 1..MaxAttemptLimit, m \in {1, 2}}

\* del OTPService._otp_store[email]
Del(store, email) == [e \in DOMAIN store \ {email} |-> store[e]]

\* A check that lets one more attempt through.
AttemptsExhaustedLate(attempts, max_attempts) == attempts > max_attempts

\* if otp_data['attempts'] >= max_attempts
AttemptsExhausted(attempts, max_attempts) == attempts >= max_attempts

\* OTPService.generate_otp: the store after the call. compared counts the
\* submitted codes that were compared with this OTP (it is not in the code).
generate_otp(store, email, otp, now, expiry_minutes) ==
    (email :> [code |-> otp, expiry |-> now + expiry_minutes, attempts |-> 0,
               compared |-> 0])
        @@ store

\* OTPService.verify_otp: the store after the call and the returned pair.
\* compared is the number of codes compared with the OTP up to and with
\* this call, 0 when none was stored.
VerifyResult(store, is_valid, msg, compared) ==
    [store |-> store, is_valid |-> is_valid, msg |-> msg,
     compared |-> compared]

verify_otp(store, email, code, now, max_attempts) ==
    IF email \notin DOMAIN store
    THEN VerifyResult(store, FALSE, "No OTP found for this email", 0)
    ELSE LET otp_data == store[email]
         IN  IF now > otp_data.expiry
             THEN VerifyResult(Del(store, email), FALSE, "OTP has expired",
                               otp_data.compared)
             ELSE IF AttemptsExhausted(otp_data.attempts, max_attempts)
             THEN VerifyResult(Del(store, email), FALSE,
                               "Maximum verification attempts exceeded",
                               otp_data.compared)
             ELSE IF otp_data.code # code
             THEN VerifyResult(
                      [store EXCEPT ![email].attempts = @ + 1,
                                    ![email].compared = @ + 1],
                      FALSE, "Invalid OTP code", otp_data.compared + 1)
             ELSE VerifyResult(Del(store, email), TRUE, "",
                               otp_data.compared + 1)

InitOtp ==
    /\ config \in OtpConfigs
    /\ _otp_store = <<>>
    /\ o_now = 0
    /\ o_out = NotCalled
    /\ api_keys = <<>> /\ generation_requests = <<>> /\ questions = <<>>
    /\ activity_logs = <<>> /\ h = <<>>
    /\ IdleValidate /\ IdleMask /\ IdleVault /\ IdleOrch /\ IdleFlatten
    /\ IdleRequests

otpOtherVars ==
    <<config, api_keys, generation_requests, questions, activity_logs, h,
      validateVars, maskVars, vaultVars, orchVars, flattenVars, requestVars>>

GenerateOtp ==
    /\ \E email \in Emails, otp \in Codes :
          /\ _otp_store' = generate_otp(_otp_store, email, otp, o_now,
                                        config.OTP_EXPIRY_MINUTES)
          /\ o_out' = [called |-> TRUE, op |-> "generate_otp",
                       email |-> email, code |-> otp, is_valid |-> FALSE,
                       msg |-> "", compared |-> 0, attempts_before |-> 0,
                       stored_before |-> email \in DOMAIN _otp_store]
    /\ UNCHANGED <<o_now, otpOtherVars>>

VerifyOtp ==
    /\ \E email \in Emails, code \in Codes :
          LET res == verify_otp(_otp_store, email, code, o_now,
                                config.MAX_OTP_ATTEMPTS)
          IN  /\ _otp_store' = res.store
              /\ o_out' = [called |-> TRUE, op |-> "verify_otp",
                           email |-> email, code |-> code,
                           is_valid |-> res.is_valid, msg |-> res.msg,
                           compared |-> res.compared,
                           attempts_before |->
                               IF email \in DOMAIN _otp_store
                               THEN _otp_store[email].attempts ELSE 0,
                           stored_before |-> email \in DOMAIN _otp_store]
    /\ UNCHANGED <<o_now, otpOtherVars>>

\* A minute passes.
Tick ==
    /\ o_now < MaxTime
    /\ o_now' = o_now + 1
    /\ UNCHANGED <<_otp_store, o_out, otpOtherVars>>

NextOtp == GenerateOtp \/ VerifyOtp \/ Tick

SpecOtp == InitOtp /\ [][NextOtp]_vars

\* C30: in every sequence of generate_otp and verify_otp calls the attempts
\* counter of a stored OTP is within 0..MAX_OTP_ATTEMPTS, at most
\* MAX_OTP_ATTEMPTS submitted codes are compared with one generated OTP,
\* verify_otp does not succeed once the counter has reached
\* MAX_OTP_ATTEMPTS, and a successful verification (which needs a stored
\* OTP) has removed the OTP, so that a second verification of the code
\* finds none.
C30_OtpAttemptsBounded ==
    /\ \A email \in DOMAIN _otp_store :
          /\ _otp_store[email].attempts \in 0..config.MAX_OTP_ATTEMPTS
          /\ _otp_store[email].compared <= config.MAX_OTP_ATTEMPTS
    /\ (o_out.called /\ o_out.op = "verify_otp") =>
          /\ o_out.compared <= config.MAX_OTP_ATTEMPTS
          /\ o_out.attempts_before >= config.MAX_OTP_ATTEMPTS
                => ~o_out.is_valid
          /\ o_out.is_valid
                => (o_out.stored_before /\ o_out.email \notin DOMAIN _otp_store)
          /\ ~o_out.stored_before => ~o_out.is_valid

\* With MAX_OTP_ATTEMPTS = 2 two wrong codes were compared with the OTP of
\* e1 and the next verify_otp, with the right or a wrong code, was refused
\* and removed it.
C30_Witness ==
    /\ config.MAX_OTP_ATTEMPTS = 2
    /\ o_out.called /\ o_out.op = "verify_otp" /\ o_out.email = "e1"
    /\ o_out.attempts_before = 2
    /\ o_out.compared = 2
    /\ ~o_out.is_valid
    /\ o_out.msg = "Maximum verification attempts exceeded"
    /\ "e1" \notin DOMAIN _otp_store
====
